---- MODULE Spec2Model ----
(***************************************************************************)
(* Model of the brace-cleanup pass (src/src/brace_cleanup.cpp).            *)
(*                                                                         *)
(* The token list is a sequence of chunk records; a chunk is named by its  *)
(* id (0 is the null chunk), so that stack entries can keep a back-pointer *)
(* to their opener while virtual braces are inserted into the list.        *)
(* One step of the model is one iteration of the sweep of brace_cleanup(), *)
(* including everything parse_cleanup() and its callees do for the chunk.  *)
(* Languages modelled: C, C++, C#, D, Objective-C (the Pawn hooks are      *)
(* other passes and Pawn is never selected).                               *)
(***************************************************************************)
EXTENDS Integers, Sequences, FiniteSets, TLC

VARIABLES
    input,       \* history: the token types of the list as handed over
    chunks,      \* the token list: Seq of chunk records
    pc,          \* id of the chunk the sweep is at (0: past the end)
    frm,         \* the current ParseFrame
    frames,      \* braceState.frames
    in_preproc,  \* braceState.in_preproc
    pp_level,    \* braceState.pp_level
    consumed,    \* braceState.consumed
    status,      \* "run", "done" (brace_cleanup returned) or "abort" (exit())
    exit_code,   \* the argument of exit(), 0 while none
    opts,        \* the options and the language consulted by the pass
    popLog,      \* history: one record per stack entry popped
    visited,     \* history: ids of the chunks the sweep has been at
    reached,     \* history: per chunk the sweep has been at, the frame then
    last         \* history: the chunk and the frame of the last iteration

vars == <<input, chunks, pc, frm, frames, in_preproc, pp_level, consumed, status,
          exit_code, opts, popLog, visited, reached, last>>

----------------------------------------------------------------------------
(* Bounds of the model *)

MaxLen == 3

----------------------------------------------------------------------------
(* Program constants *)

EX_SOFTWARE == 70
EXIT_FAILURE == 1
\* size_t arithmetic wraps; the largest value is represented by SIZE_MAX
SIZE_MAX == 2147483646 + 1

SizeDec(x) == IF x = 0 THEN SIZE_MAX ELSE x - 1
SizeInc(x) == IF x = SIZE_MAX THEN 0 ELSE x + 1

----------------------------------------------------------------------------
(* Token types: the closer paired with an opener (E_Token: opener + 1) *)

TokenPlusOne(t) ==
    CASE t = "PAREN_OPEN"  -> "PAREN_CLOSE"
      [] t = "SPAREN_OPEN" -> "SPAREN_CLOSE"
      [] t = "FPAREN_OPEN" -> "FPAREN_CLOSE"
      [] t = "BRACE_OPEN"  -> "BRACE_CLOSE"
      [] t = "VBRACE_OPEN" -> "VBRACE_CLOSE"
      [] t = "ANGLE_OPEN"  -> "ANGLE_CLOSE"
      [] t = "MACRO_OPEN"  -> "MACRO_CLOSE"
      [] t = "SQUARE_OPEN" -> "SQUARE_CLOSE"
      [] OTHER             -> "UNPAIRED"

BracketOpeners ==
    {"PAREN_OPEN", "SPAREN_OPEN", "FPAREN_OPEN", "BRACE_OPEN", "VBRACE_OPEN",
     "ANGLE_OPEN", "MACRO_OPEN", "SQUARE_OPEN"}

CurlyOpeners == {"BRACE_OPEN", "VBRACE_OPEN", "MACRO_OPEN"}

CloserTypes ==
    {"PAREN_CLOSE", "SPAREN_CLOSE", "FPAREN_CLOSE", "BRACE_CLOSE",
     "VBRACE_CLOSE", "ANGLE_CLOSE", "MACRO_CLOSE", "SQUARE_CLOSE"}

get_token_pattern_class(t) ==
    CASE t \in {"DO", "TRY", "FINALLY", "BODY", "UNITTEST", "UNSAFE",
                "VOLATILE", "GETSET"} -> "BRACED"
      [] t \in {"IF", "ELSEIF", "FOR", "WHILE", "SWITCH", "USING_STMT",
                "SYNCHRONIZED", "LOCK", "CATCH", "D_VERSION_IF",
                "D_SCOPE_IF"} -> "PBRACED"
      [] t \in {"WHEN", "VERSION", "SCOPE"} -> "OPBRACED"
      [] t = "ELSE" -> "ELSE"
      [] OTHER -> "NONE"

PCF_COPY_FLAGS == {"IN_PREPROC", "IN_SPAREN", "IN_FOR", "IN_NAMESPACE"}

language_is_set(o, l) == o.lang = l

----------------------------------------------------------------------------
(* Chunks and the token list *)

NullChunk ==
    [id |-> 0, type |-> "NONE", parent |-> "NONE", level |-> 0,
     brace_level |-> 0, pp_level |-> 0, flags |-> {}, str |-> "",
     line |-> 0, pparent |-> 0]

SetMin(S) == CHOOSE x \in S : \A y \in S : x <= y
SetMax(S) == CHOOSE x \in S : \A y \in S : x >= y

Pos(ch, id) == CHOOSE i \in 1..Len(ch) : ch[i].id = id

At(ch, id) == IF id = 0 THEN NullChunk ELSE ch[Pos(ch, id)]

IsComment(c) == c.type = "COMMENT"
IsNewline(c) == c.type = "NEWLINE"
IsCommentOrNewline(c) == IsComment(c) \/ IsNewline(c)
IsSemicolon(c) == c.type \in {"SEMICOLON", "VSEMICOLON"}

GetNext(ch, id) ==
    IF id = 0 \/ Pos(ch, id) = Len(ch) THEN 0 ELSE ch[Pos(ch, id) + 1].id

GetPrev(ch, id) ==
    IF id = 0 \/ Pos(ch, id) = 1 THEN 0 ELSE ch[Pos(ch, id) - 1].id

\* the first (the last) chunk among the positions S, the null chunk if none
FirstIn(ch, S) == IF S = {} THEN 0 ELSE ch[SetMin(S)].id
LastIn(ch, S) == IF S = {} THEN 0 ELSE ch[SetMax(S)].id

\* the positions after (before) the chunk id
After(ch, id) == IF id = 0 THEN {} ELSE (Pos(ch, id) + 1)..Len(ch)
Before(ch, id) == IF id = 0 THEN {} ELSE 1..(Pos(ch, id) - 1)

GetNextNcNnl(ch, id) ==
    FirstIn(ch, {j \in After(ch, id) : ~IsCommentOrNewline(ch[j])})
GetPrevNcNnl(ch, id) ==
    LastIn(ch, {j \in Before(ch, id) : ~IsCommentOrNewline(ch[j])})
GetNextNc(ch, id) ==
    FirstIn(ch, {j \in After(ch, id) : ~IsComment(ch[j])})
GetPrevNc(ch, id) ==
    LastIn(ch, {j \in Before(ch, id) : ~IsComment(ch[j])})

\* setters; on the null chunk they do nothing
SetF(ch, id, f, v) == IF id = 0 THEN ch ELSE [ch EXCEPT ![Pos(ch, id)][f] = v]
SetFlagBits(ch, id, F) ==
    IF id = 0 THEN ch ELSE [ch EXCEPT ![Pos(ch, id)].flags = @ \cup F]
ResetFlagBits(ch, id, F) ==
    IF id = 0 THEN ch ELSE [ch EXCEPT ![Pos(ch, id)].flags = @ \ F]

\* Chunk::CopyAndAddAfter: after ref, or at the head for the null chunk
CopyAndAddAfter(ch, c, ref) ==
    IF ref = 0 THEN <<c>> \o ch
    ELSE SubSeq(ch, 1, Pos(ch, ref)) \o <<c>>
             \o SubSeq(ch, Pos(ch, ref) + 1, Len(ch))

----------------------------------------------------------------------------
(* ParseFrame *)

Sentinel == [type |-> "EOF", parent |-> "NONE", stage |-> "NONE", pc |-> 0]

NewFrame ==
    [pse |-> <<Sentinel>>, level |-> 0, brace_level |-> 0, pp_level |-> 0,
     sparen_count |-> 0, stmt_count |-> 0, expr_count |-> 0,
     in_ifdef |-> "NONE"]

top(f) == f.pse[Len(f.pse)]
prev(f) == f.pse[Len(f.pse) - 1]

\* ParseFrame::push(chunk, stage); push(nullptr) pushes a dummy chunk
push(f, c, stage) ==
    [f EXCEPT !.pse = Append(@, [type |-> c.type, parent |-> c.parent,
                                 stage |-> stage, pc |-> c.id])]

pop(f) == [f EXCEPT !.pse = SubSeq(@, 1, Len(@) - 1)]

SetTop(f, fld, v) == [f EXCEPT !.pse[Len(f.pse)][fld] = v]

----------------------------------------------------------------------------
(* The state threaded through one call of parse_cleanup():                 *)
(*   ch, frm, consumed: the token list, the frame, braceState.consumed     *)
(*   status, code: "abort" and the exit code once exit() was called        *)
(*   done: parse_cleanup() has returned; ret: the callee's return value    *)
(*   log: the pops so far                                                  *)
(*   ev, evfrm: history: what the open/close check of lines 467-496 found  *)
(*   ("match", or a mismatch: "preproc", "outside"), and the frame it saw  *)
(*   pt: parentType of lines 587-731                                       *)
(*   calls, nest: history: the calls of close_statement() and              *)
(*   handle_complex_close() so far, each with the depth of the stack at    *)
(*   its entry and the number of such calls it is nested in                *)

Exit(s, code) == [s EXCEPT !.status = "abort", !.code = code]

\* frm.pop(), recording the entry and the chunk that closes it
PopBy(s, by) ==
    [s EXCEPT !.frm = pop(@),
              !.log = Append(@, [type |-> top(s.frm).type,
                                 stage |-> top(s.frm).stage,
                                 opener |-> top(s.frm).pc,
                                 closer |-> by,
                                 ctype |-> At(s.ch, by).type])]

Ret(s, b) == [s EXCEPT !.ret = b]

\* history: the function fn is entered; r is what it returns to the caller,
\* whose state at the call was s
Enter(s, fn) ==
    [s EXCEPT !.calls = Append(@, [fn |-> fn, depth |-> Len(s.frm.pse),
                                   nest |-> s.nest]),
              !.nest = @ + 1]
Leave(r, s) == [r EXCEPT !.nest = s.nest]

----------------------------------------------------------------------------
(* insert_vbrace(pc, after, frm): the token list with the virtual brace    *)
(* added, and the id of the new chunk (0: the null chunk was returned)     *)

\* lines 1291-1299: the chunk to add, a copy of which goes into the list
vbrace_chunk(s, p) ==
    [id |-> Len(s.ch) + 1, type |-> "NONE", parent |-> top(s.frm).type,
     level |-> s.frm.level, brace_level |-> s.frm.brace_level,
     pp_level |-> s.frm.pp_level,
     flags |-> At(s.ch, p).flags \cap PCF_COPY_FLAGS, str |-> "",
     line |-> At(s.ch, p).line, pparent |-> 0]

\* two CT_VBRACE_CLOSE are inserted for one virtual brace
insert_vbrace_close_after_twice(s, p) ==
    [ch |-> CopyAndAddAfter(
                CopyAndAddAfter(s.ch, [vbrace_chunk(s, p) EXCEPT !.type = "VBRACE_CLOSE"], p),
                [vbrace_chunk(s, p) EXCEPT !.type = "VBRACE_CLOSE",
                                           !.id = Len(s.ch) + 2], p),
     vb |-> Len(s.ch) + 1]

\* lines 1301-1306: insert_vbrace_close_after(pc, frm)
insert_vbrace_close_after(s, p) ==
    [ch |-> CopyAndAddAfter(s.ch, [vbrace_chunk(s, p) EXCEPT !.type = "VBRACE_CLOSE"], p),
     vb |-> Len(s.ch) + 1]

\* index of the first chunk of the run of comments and newlines ending at i-1
RunStart(ch, i) ==
    SetMin({j \in 1..i : \A k \in j..(i - 1) : IsCommentOrNewline(ch[k])})

\* lines 1320-1325: every comment or newline walked over gets one level more
BumpRun(ch, from, to) ==
    [k \in 1..Len(ch) |->
        IF k >= from /\ k <= to
        THEN [ch[k] EXCEPT !.level = @ + 1, !.brace_level = @ + 1]
        ELSE ch[k]]

\* lines 1336-1342: walk back while the chunk is in the preprocessor
BackOutOfPreproc(ch, ref) ==
    LastIn(ch, {j \in 1..Pos(ch, ref) : "IN_PREPROC" \notin ch[j].flags})

\* lines 1346-1351: the chunk after ref, or the one after a comment there
AfterPreproc(ch, n) ==
    IF At(ch, n).type = "COMMENT" THEN GetNextNc(ch, n) ELSE n

\* lines 1332-1353: don't back into a preprocessor
vbrace_ref_preproc(ch, p, ref) ==
    IF "IN_PREPROC" \notin At(ch, p).flags /\ "IN_PREPROC" \in At(ch, ref).flags
    THEN IF At(ch, ref).type = "PREPROC_BODY"
         THEN BackOutOfPreproc(ch, ref)
         ELSE AfterPreproc(ch, GetNext(ch, ref))
    ELSE ref

\* lines 1355-1358: Issue #3351
vbrace_ref_comment(ch, ref, ref_is_comment) ==
    IF ref_is_comment THEN GetNext(ch, ref) ELSE ref

\* lines 1360-1370: add the open brace after ref
vbrace_add_open(ch, chunk, ref) ==
    IF ref = 0 THEN [ch |-> ch, vb |-> 0]
    ELSE [ch |-> CopyAndAddAfter(ch,
                    [chunk EXCEPT !.type = "VBRACE_OPEN",
                                  !.line = At(ch, ref).line,
                                  !.pp_level = At(ch, ref).pp_level],
                    ref),
          vb |-> chunk.id]

\* lines 1327-1370: ch is the list after the walk over comments and
\* newlines, which stopped before index j
vbrace_open_walked(ch, chunk, p, j, ref_is_comment) ==
    IF j = 1 THEN [ch |-> ch, vb |-> 0]
    ELSE vbrace_add_open(ch, chunk,
            vbrace_ref_comment(ch, vbrace_ref_preproc(ch, p, ch[j - 1].id),
                               ref_is_comment))

\* lines 1314-1317: the new chunk is in the preprocessor only if ref is
vbrace_open_chunk(s, p, ref) ==
    [vbrace_chunk(s, p) EXCEPT
        !.flags = IF "IN_PREPROC" \in At(s.ch, ref).flags
                  THEN @ ELSE @ \ {"IN_PREPROC"}]

\* lines 1307-1370: insert_vbrace_open_before(pc, frm)
insert_vbrace_open_before(s, p) ==
    IF GetPrev(s.ch, p) = 0 THEN [ch |-> s.ch, vb |-> 0]
    ELSE vbrace_open_walked(
            BumpRun(s.ch, RunStart(s.ch, Pos(s.ch, p)), Pos(s.ch, p) - 1),
            vbrace_open_chunk(s, p, GetPrev(s.ch, p)),
            p,
            RunStart(s.ch, Pos(s.ch, p)),
            IsComment(At(s.ch, GetPrev(s.ch, p))))

\* the virtual open goes after pc as well, where the sweep will come
insert_vbrace_after(s, p, after) ==
    IF after THEN insert_vbrace_close_after(s, p)
    ELSE [ch |-> CopyAndAddAfter(s.ch, [vbrace_chunk(s, p) EXCEPT
                                           !.type = "VBRACE_OPEN"], p),
          vb |-> Len(s.ch) + 1]

\* lines 1287-1371
insert_vbrace(s, p, after) ==
    IF after THEN insert_vbrace_close_after(s, p)
    ELSE insert_vbrace_open_before(s, p)

----------------------------------------------------------------------------
(* close_statement() and handle_complex_close() *)

RECURSIVE close_statement(_, _)
RECURSIVE handle_complex_close(_, _)

\* lines 1414-1415
vbrace_levels_down(s) ==
    [s EXCEPT !.frm.level = SizeDec(@), !.frm.brace_level = SizeDec(@)]

\* lines 1416-1417: the virtual close goes after vbc, with the parent of the
\* entry of the virtual open
vbrace_close_before(s, vbc) ==
    [s EXCEPT !.ch = SetF(insert_vbrace(s, vbc, TRUE).ch, Len(s.ch) + 1,
                          "parent", top(s.frm).parent)]

\* lines 1426-1428: update the token level
vbrace_level_of_pc(s, p) ==
    [s EXCEPT !.ch = SetF(SetF(@, p, "level", s.frm.level),
                          p, "brace_level", s.frm.brace_level)]

\* lines 1412-1434: top is a VBRACE_OPEN and pc was not consumed: add the
\* virtual close before pc, pop the virtual open and repeat the close
close_vbrace_before(s, p) ==
    Ret(close_statement(
            vbrace_level_of_pc(
                PopBy(vbrace_close_before(vbrace_levels_down(s),
                                          GetPrevNcNnl(s.ch, p)),
                      Len(s.ch) + 1),
                p),
            p),
        TRUE)

\* lines 1389-1395
cs_reset(s) ==
    IF s.consumed
    THEN [s EXCEPT !.frm.stmt_count = 0, !.frm.expr_count = 0]
    ELSE s

\* lines 1438-1446: see if we are done with a complex statement
cs_complex(s, p) ==
    IF top(s.frm).stage # "NONE"
    THEN handle_complex_close(s, p)
    ELSE Ret(s, FALSE)

\* no CT_VBRACE_CLOSE is ever inserted
cs_vbrace_never(s, p) == cs_complex(s, p)

\* lines 1400-1436: insert a CT_VBRACE_CLOSE, if needed
cs_vbrace(s, p) ==
    IF top(s.frm).type = "VBRACE_OPEN"
    THEN IF s.consumed
         THEN cs_complex([s EXCEPT !.ch = insert_vbrace(s, p, TRUE).ch], p)
         ELSE close_vbrace_before(s, p)
    ELSE cs_complex(s, p)

close_statement(s, p) ==
    IF s.status # "run" THEN s
    ELSE Leave(cs_vbrace(cs_reset(Enter(s, "close_statement")), p), s)

\* the entry stays on the stack, with nothing more to wait for
hcc_pop_keep(s, p) == [s EXCEPT !.frm = SetTop(@, "stage", "NONE")]

\* lines 1155, 1174, 1186, 1209: the statement is over, its entry goes
hcc_pop(s, p) == PopBy(s, p)

\* lines 1127-1224: the stage of the top entry decides
hcc_stage(s, p) ==
    LET t == top(s.frm)
    IN  IF s.status # "run" THEN s
        ELSE IF t.stage = "PAREN1"
        THEN IF At(s.ch, GetNext(s.ch, p)).type = "WHEN"
             THEN Ret([s EXCEPT !.frm = SetTop(SetTop(@, "type", At(s.ch, p).type),
                                               "stage", "CATCH_WHEN")], TRUE)
             ELSE Ret([s EXCEPT !.frm = SetTop(@, "stage", "BRACE2")], FALSE)
        ELSE IF t.stage = "BRACE2"
        THEN IF t.type \in {"IF", "ELSEIF"}
             THEN LET s1 == [s EXCEPT !.frm = SetTop(@, "stage", "ELSE")]
                      next == GetNextNcNnl(s.ch, p)
                  IN  IF next = 0 \/ At(s.ch, next).type # "ELSE"
                      THEN close_statement(hcc_pop(s1, p), p)
                      ELSE Ret(s1, FALSE)
             ELSE IF t.type \in {"TRY", "CATCH"}
             THEN LET s1 == [s EXCEPT !.frm = SetTop(@, "stage", "CATCH")]
                      next == GetNextNcNnl(s.ch, p)
                  IN  IF At(s.ch, next).type \notin {"CATCH", "FINALLY"}
                      THEN close_statement(hcc_pop(s1, p), p)
                      ELSE Ret(s1, FALSE)
             ELSE close_statement(hcc_pop(s, p), p)
        ELSE IF t.stage = "BRACE_DO"
        THEN Ret([s EXCEPT !.frm = SetTop(@, "stage", "WHILE")], FALSE)
        ELSE IF t.stage = "WOD_PAREN"
        THEN Ret([s EXCEPT !.frm = SetTop(@, "stage", "WOD_SEMI")], FALSE)
        ELSE IF t.stage = "WOD_SEMI"
        THEN close_statement(hcc_pop(s, p), p)
        ELSE Exit(s, EX_SOFTWARE)

handle_complex_close(s, p) ==
    IF s.status # "run" THEN s
    ELSE Leave(hcc_stage(Enter(s, "handle_complex_close"), p), s)

----------------------------------------------------------------------------
(* check_complex_statements(): s.returned tells that the function has      *)
(* returned, with s.ret its value; otherwise the next part runs            *)

Return(s, b) == [s EXCEPT !.returned = TRUE, !.ret = b]

Running(s) == s.status = "run" /\ ~s.returned

\* lines 905-912: an optional parenthesis becomes a real one or a brace
ccs_op_paren(s, p) ==
    IF top(s.frm).stage = "OP_PAREN1"
    THEN [s EXCEPT !.frm = SetTop(@, "stage",
                     IF At(s.ch, p).type # "PAREN_OPEN" THEN "BRACE2" ELSE "PAREN1")]
    ELSE s

\* lines 915-936: CT_ELSE after CT_IF
RECURSIVE ccs_else(_, _)

\* lines 932-936: s is the state after close_statement()
ccs_else_closed(s, p) ==
    IF s.status = "run" /\ s.ret
    THEN Return(s, TRUE)
    ELSE ccs_else(s, p)

\* the else goes straight to its body: no "else if" is looked for
ccs_else_body(s, p) ==
    IF ~Running(s) \/ top(s.frm).stage # "ELSE" THEN s
    ELSE IF At(s.ch, p).type = "ELSE"
    THEN Return([s EXCEPT !.frm = SetTop(SetTop(@, "type", "ELSE"),
                                         "stage", "BRACE2")], TRUE)
    ELSE ccs_else_closed(close_statement(PopBy(s, p), p), p)

\* lines 915-936: CT_ELSE after CT_IF
ccs_else(s, p) ==
    IF ~Running(s) \/ top(s.frm).stage # "ELSE" THEN s
    ELSE IF At(s.ch, p).type = "ELSE"
    THEN Return([s EXCEPT !.frm = SetTop(SetTop(@, "type", "ELSE"),
                                         "stage", "ELSEIF")], TRUE)
    ELSE ccs_else_closed(close_statement(PopBy(s, p), p), p)

\* every CT_IF after CT_ELSE fused, whatever indent_else_if says
ccs_elseif_fused(s, p) ==
    IF ~Running(s) \/ top(s.frm).stage # "ELSEIF" THEN s
    ELSE IF At(s.ch, p).type = "IF"
    THEN Return([s EXCEPT !.ch = SetF(@, p, "type", "ELSEIF"),
                          !.frm = SetTop(SetTop(@, "type", "ELSEIF"),
                                         "stage", "PAREN1")], TRUE)
    ELSE [s EXCEPT !.frm = SetTop(@, "stage", "BRACE2")]

\* lines 939-955: CT_IF after CT_ELSE
ccs_elseif(s, p) ==
    IF ~Running(s) \/ top(s.frm).stage # "ELSEIF" THEN s
    ELSE IF At(s.ch, p).type = "IF"
            /\ (~s.opts.indent_else_if
                \/ ~IsNewline(At(s.ch, GetPrevNc(s.ch, p))))
    THEN Return([s EXCEPT !.ch = SetF(@, p, "type", "ELSEIF"),
                          !.frm = SetTop(SetTop(@, "type", "ELSEIF"),
                                         "stage", "PAREN1")], TRUE)
    ELSE [s EXCEPT !.frm = SetTop(@, "stage", "BRACE2")]

\* lines 958-991: CT_CATCH or CT_FINALLY after CT_TRY or CT_CATCH
RECURSIVE ccs_catch(_, _)

\* lines 987-991: s is the state after close_statement()
ccs_catch_closed(s, p) ==
    IF s.status = "run" /\ s.ret
    THEN Return(s, TRUE)
    ELSE ccs_catch(s, p)

ccs_catch(s, p) ==
    IF ~Running(s) \/ top(s.frm).stage # "CATCH" THEN s
    ELSE IF At(s.ch, p).type \in {"CATCH", "FINALLY"}
    THEN LET isCatch == At(s.ch, p).type = "CATCH"
             stage == IF language_is_set(s.opts, "CS")
                      THEN (IF isCatch THEN "CATCH_WHEN" ELSE "BRACE2")
                      ELSE (IF isCatch THEN "PAREN1" ELSE "BRACE2")
         IN  Return([s EXCEPT !.frm = SetTop(SetTop(@, "type", At(s.ch, p).type),
                                             "stage", stage)], TRUE)
    ELSE ccs_catch_closed(close_statement(PopBy(s, p), p), p)

\* lines 994-1020: optional parenthesis and optional CT_WHEN after CT_CATCH
ccs_catch_when(s, p) ==
    IF ~Running(s) \/ top(s.frm).stage # "CATCH_WHEN" THEN s
    ELSE IF At(s.ch, p).type = "PAREN_OPEN"
    THEN Return([s EXCEPT !.ch = SetF(@, p, "type", "SPAREN_OPEN"),
                          !.frm = SetTop(SetTop(@, "type", "SPAREN_OPEN"),
                                         "stage", "PAREN1")], FALSE)
    ELSE IF At(s.ch, p).type = "WHEN"
    THEN Return([s EXCEPT !.frm = SetTop(SetTop(@, "type", "WHEN"),
                                         "stage", "OP_PAREN1")], TRUE)
    ELSE IF At(s.ch, p).type = "BRACE_OPEN"
    THEN Return([s EXCEPT !.frm = SetTop(@, "stage", "BRACE2")], FALSE)
    ELSE s

\* the "while" after the body keeps its type
ccs_while_plain(s, p) ==
    IF ~Running(s) \/ top(s.frm).stage # "WHILE" THEN s
    ELSE IF At(s.ch, p).type = "WHILE"
    THEN Return([s EXCEPT !.frm = SetTop(SetTop(@, "type", "WHILE_OF_DO"),
                                         "stage", "WOD_PAREN")], TRUE)
    ELSE Exit(PopBy(s, p), EX_SOFTWARE)

\* lines 1023-1041: CT_WHILE after the CT_DO
ccs_while(s, p) ==
    IF ~Running(s) \/ top(s.frm).stage # "WHILE" THEN s
    ELSE IF At(s.ch, p).type = "WHILE"
    THEN Return([s EXCEPT !.ch = SetF(@, p, "type", "WHILE_OF_DO"),
                          !.frm = SetTop(SetTop(@, "type", "WHILE_OF_DO"),
                                         "stage", "WOD_PAREN")], TRUE)
    ELSE Exit(PopBy(s, p), EX_SOFTWARE)

\* lines 1077-1088: update the level of pc, mark it as a statement start
ccs_vbrace_mark(s, p) ==
    [s EXCEPT !.ch = SetFlagBits(SetF(SetF(@, p, "level", s.frm.level),
                                      p, "brace_level", s.frm.brace_level),
                                 p, {"STMT_START", "EXPR_START"}),
              !.frm.stmt_count = 1,
              !.frm.expr_count = 1]

\* the virtual open is pushed without a parent
ccs_vbrace_push_unowned(s, ins, parentType) ==
    [s EXCEPT !.ch = SetF(ins.ch, ins.vb, "parent", "NONE"),
              !.frm = SetTop(push([@ EXCEPT !.level = SizeInc(@),
                                            !.brace_level = SizeInc(@)],
                                  At(ins.ch, ins.vb), "NONE"),
                             "parent", "NONE")]

\* lines 1061-1075: ins is what insert_vbrace_open_before() made
ccs_vbrace_push(s, ins, parentType) ==
    [s EXCEPT !.ch = SetF(ins.ch, ins.vb, "parent", parentType),
              !.frm = SetTop(push([@ EXCEPT !.level = SizeInc(@),
                                            !.brace_level = SizeInc(@)],
                                  At(ins.ch, ins.vb), "NONE"),
                             "parent", parentType)]

\* lines 1046-1092: insert a CT_VBRACE_OPEN, if needed
ccs_vbrace(s, p) ==
    IF ~Running(s) THEN s
    ELSE IF At(s.ch, p).type # "BRACE_OPEN"
            /\ "IN_PREPROC" \notin At(s.ch, p).flags
            /\ top(s.frm).stage \in {"BRACE2", "BRACE_DO"}
            /\ ~(language_is_set(s.opts, "CS")
                 /\ At(s.ch, p).type = "USING_STMT"
                 /\ ~s.opts.indent_using_block)
    THEN ccs_vbrace_mark(
            ccs_vbrace_push(s, insert_vbrace(s, p, FALSE), top(s.frm).type), p)
    ELSE s

\* the missing open parenthesis ends the process with EXIT_FAILURE
ccs_paren_failure(s, p) ==
    IF ~Running(s) THEN s
    ELSE IF top(s.frm).stage = "PAREN1"
            /\ top(s.frm).type \in {"IF", "ELSEIF"}
            /\ At(s.ch, p).type = "CONSTEXPR"
    THEN Return(s, FALSE)
    ELSE IF At(s.ch, p).type # "PAREN_OPEN"
            /\ top(s.frm).stage \in {"PAREN1", "WOD_PAREN"}
    THEN Exit(PopBy(s, p), EXIT_FAILURE)
    ELSE Return(s, FALSE)

\* lines 1095-1119: "constexpr" after CT_IF, and the open parenthesis
ccs_paren(s, p) ==
    IF ~Running(s) THEN s
    ELSE IF top(s.frm).stage = "PAREN1"
            /\ top(s.frm).type \in {"IF", "ELSEIF"}
            /\ At(s.ch, p).type = "CONSTEXPR"
    THEN Return(s, FALSE)
    ELSE IF At(s.ch, p).type # "PAREN_OPEN"
            /\ top(s.frm).stage \in {"PAREN1", "WOD_PAREN"}
    THEN Exit(PopBy(s, p), EX_SOFTWARE)
    ELSE Return(s, FALSE)

check_complex_statements(s, p) ==
    ccs_paren(
     ccs_vbrace(
      ccs_while(
       ccs_catch_when(
        ccs_catch(
         ccs_elseif(
          ccs_else(
           ccs_op_paren([s EXCEPT !.returned = FALSE], p),
          p), p), p), p), p), p), p)

----------------------------------------------------------------------------
(* parse_cleanup(), part by part; s.done tells that it has returned *)

Live(s) == s.status = "run" /\ ~s.done

\* lines 368-385: mark statement starts, count the chunk
pc_mark(s, p) ==
    LET c  == At(s.ch, p)
        f  == s.frm
        fl == {"EXPR_START"} \cup (IF f.stmt_count = 0 THEN {"STMT_START"} ELSE {})
        ch1 == IF (f.stmt_count = 0 \/ f.expr_count = 0)
                  /\ ~IsSemicolon(c)
                  /\ c.type # "BRACE_CLOSE"
                  /\ c.type # "VBRACE_CLOSE"
                  /\ c.str # ")"
                  /\ c.str # "]"
               THEN SetFlagBits(s.ch, p, fl)
               ELSE s.ch
    IN  [s EXCEPT !.ch = ch1,
                  !.frm.stmt_count = @ + 1,
                  !.frm.expr_count = @ + 1]

\* IN_FOR also for the chunk that meets the entry of the for on top
sparen_in_for_top(s, p) ==
    IF \E i \in 1..Len(s.frm.pse) : s.frm.pse[i].type = "FOR"
    THEN [s EXCEPT !.ch = SetFlagBits(@, p, {"IN_FOR"})]
    ELSE s

\* lines 391-399: mark everything in the for statement; frm.at(tmp) for tmp
\* from size - 2 down to 0
sparen_in_for(s, p) ==
    IF \E i \in 1..(Len(s.frm.pse) - 1) : s.frm.pse[i].type = "FOR"
    THEN [s EXCEPT !.ch = SetFlagBits(@, p, {"IN_FOR"})]
    ELSE s

\* the semicolons of a for() keep their parent
sparen_for_semicolon_never(s, p) == s

\* lines 401-407: mark the parent on semicolons in for() statements
sparen_for_semicolon(s, p) ==
    IF At(s.ch, p).type = "SEMICOLON"
       /\ Len(s.frm.pse) > 2
       /\ prev(s.frm).type = "FOR"
    THEN [s EXCEPT !.ch = SetF(@, p, "parent", "FOR")]
    ELSE s

\* IN_SPAREN whatever sparen_count is
pc_sparen_always(s, p) ==
    sparen_for_semicolon(
        sparen_in_for([s EXCEPT !.ch = SetFlagBits(@, p, {"IN_SPAREN"})], p), p)

\* lines 387-408: IN_SPAREN, IN_FOR and the parent of a for()'s semicolons
pc_sparen(s, p) ==
    IF s.frm.sparen_count > 0
    THEN sparen_for_semicolon(
            sparen_in_for([s EXCEPT !.ch = SetFlagBits(@, p, {"IN_SPAREN"})],
                          p), p)
    ELSE s

\* lines 413-416: s is the state after check_complex_statements()
pc_complex_done(s) ==
    IF s.status = "run" /\ s.ret THEN [s EXCEPT !.done = TRUE] ELSE s

\* lines 411-416: the progression of complex statements
pc_complex(s, p) ==
    IF top(s.frm).stage # "NONE" /\ At(s.ch, p).type # "AUTORELEASEPOOL"
    THEN pc_complex_done(check_complex_statements(s, p))
    ELSE s

\* lines 424-441: a virtual brace statement closed by a semicolon
pc_vbsemi(s, p) ==
    IF ~Live(s) \/ top(s.frm).type # "VBRACE_OPEN" THEN s
    ELSE IF IsSemicolon(At(s.ch, p))
    THEN close_statement([s EXCEPT !.consumed = TRUE], p)
    ELSE IF (language_is_set(s.opts, "PAWN") \/ language_is_set(s.opts, "D"))
            /\ At(s.ch, p).type = "BRACE_CLOSE"
    THEN close_statement(s, p)
    ELSE s

\* lines 452-464: CT_PAREN_CLOSE becomes CT_SPAREN_CLOSE or CT_FPAREN_CLOSE
close_retype(s, p) ==
    IF At(s.ch, p).type = "PAREN_CLOSE"
       /\ top(s.frm).type \in {"FPAREN_OPEN", "SPAREN_OPEN"}
    THEN LET nt == TokenPlusOne(top(s.frm).type)
             ch1 == SetF(s.ch, p, "type", nt)
         IN  IF nt = "SPAREN_CLOSE"
             THEN [s EXCEPT !.ch = ResetFlagBits(ch1, p, {"IN_SPAREN"}),
                            !.frm.sparen_count = SizeDec(@)]
             ELSE [s EXCEPT !.ch = ch1]
    ELSE s

\* the exit code of an unexpected closer (line 493)
MismatchExitCode == EXIT_FAILURE

\* lines 469-495: the closer does not match the top of the stack
close_mismatch(s, p) ==
    IF "IN_PREPROC" \in At(s.ch, p).flags
    THEN [s EXCEPT !.ev = "preproc", !.evfrm = s.frm]
    ELSE IF top(s.frm).type # "EOF" /\ top(s.frm).type # "PP_DEFINE"
    THEN Exit([s EXCEPT !.ev = "outside", !.evfrm = s.frm], MismatchExitCode)
    ELSE [s EXCEPT !.ev = "outside", !.evfrm = s.frm]

\* line 509: the brace level after a closing brace
close_brace_level(s, p) == SizeDec(s.frm.brace_level)

\* lines 502-515: copy the parent to pc, with the levels after the close
close_stamp(s, p) ==
    [s EXCEPT !.ch = SetF(SetF(SetF(@, p, "parent", top(s.frm).parent),
                               p, "level", s.frm.level),
                          p, "brace_level", s.frm.brace_level)]

\* lines 503-513: update the parenthesis/brace levels
close_levels(s, p) ==
    [s EXCEPT !.frm.level = SizeDec(@),
              !.frm.brace_level =
                  IF At(s.ch, p).type \in {"BRACE_CLOSE", "VBRACE_CLOSE",
                                           "MACRO_CLOSE"}
                  THEN close_brace_level(s, p)
                  ELSE @]

\* lines 523-534: the dummy frame for a function inside a virtual brace
close_dummy(s, p) ==
    IF /\ top(s.frm).stage = "NONE"
       /\ At(s.ch, p).type \in {"VBRACE_CLOSE", "BRACE_CLOSE", "SEMICOLON"}
       /\ At(s.ch, top(s.frm).pc).type = "VBRACE_OPEN"
    THEN [s EXCEPT !.frm = SetTop(push(@, NullChunk, "NONE"), "stage", "BRACE2")]
    ELSE s

\* lines 536-540: see if we are in a complex statement
close_complex(s, p) ==
    IF top(s.frm).stage # "NONE"
    THEN handle_complex_close(s, p)
    ELSE s

\* lines 499-540: the closer matches: copy the parent, update the levels, pop
close_match(s, p) ==
    close_complex(
        close_dummy(
            PopBy(close_stamp(close_levels([s EXCEPT !.consumed = TRUE,
                                                     !.ev = "match",
                                                     !.evfrm = s.frm], p), p),
                  p),
            p),
        p)

\* every closer pairs with whatever is on top
closer_pairs_any(s, p) == top(s.frm).type \in BracketOpeners

\* line 467: the open / close match
closer_pairs(s, p) == At(s.ch, p).type = TokenPlusOne(top(s.frm).type)

\* lines 466-541: s is the state after the change of CT_PAREN_CLOSE
close_checked(s, p) ==
    IF closer_pairs(s, p) THEN close_match(s, p) ELSE close_mismatch(s, p)

\* lines 444-542: close parenthesis, vbrace, brace, and square
pc_close(s, p) ==
    IF ~Live(s) THEN s
    ELSE IF At(s.ch, p).type \in {"PAREN_CLOSE", "BRACE_CLOSE", "VBRACE_CLOSE",
                                  "ANGLE_CLOSE", "MACRO_CLOSE", "SQUARE_CLOSE"}
    THEN close_checked(close_retype(s, p), p)
    ELSE s

\* lines 549-585: the semicolon of a while-of-do
pc_wod(s, p) ==
    IF ~Live(s) \/ top(s.frm).stage # "WOD_SEMI" THEN s
    ELSE IF s.consumed THEN s
    ELSE IF IsSemicolon(At(s.ch, p))
    THEN handle_complex_close(
            [s EXCEPT !.consumed = TRUE,
                      !.ch = SetF(@, p, "parent", "WHILE_OF_DO")], p)
    ELSE Exit(s, EX_SOFTWARE)


SparenKeywords ==
    {"IF", "CONSTEXPR", "ELSEIF", "WHILE", "WHILE_OF_DO", "DO", "FOR",
     "SWITCH", "CATCH", "SYNCHRONIZED", "D_VERSION", "D_VERSION_IF",
     "D_SCOPE", "D_SCOPE_IF"}

\* lines 598-640: the parent and the type of an open parenthesis;
\* s.pt keeps parentType
open_paren_parent(s, p, prv) ==
    IF prv.type \in SparenKeywords
    THEN [s EXCEPT !.ch = SetF(@, p, "type", "SPAREN_OPEN"),
                   !.pt = top(s.frm).type,
                   !.frm.sparen_count = SizeInc(@)]
    ELSE IF prv.type = "FUNCTION"
    THEN [s EXCEPT !.ch = SetF(@, p, "type", "FPAREN_OPEN"), !.pt = "FUNCTION"]
    ELSE IF prv.type = "ENUM" /\ language_is_set(s.opts, "OC")
    THEN [s EXCEPT !.ch = SetF(@, p, "type", "FPAREN_OPEN"), !.pt = "ENUM"]
    ELSE IF prv.type = "DECLSPEC"
    THEN [s EXCEPT !.pt = "DECLSPEC"]
    ELSE [s EXCEPT !.pt = At(s.ch, p).parent]

\* lines 643-671: the parent of an open brace
open_brace_parent(s, p, prv) ==
    IF top(s.frm).stage # "NONE" THEN top(s.frm).type
    ELSE IF prv.type = "ASSIGN" /\ prv.str = "=" THEN "ASSIGN"
    ELSE IF prv.type = "RETURN" /\ language_is_set(s.opts, "CPP") THEN "RETURN"
    ELSE IF prv.type = "FPAREN_CLOSE" /\ language_is_set(s.opts, "OC")
            /\ prv.parent = "ENUM" THEN "ENUM"
    ELSE IF prv.type = "FPAREN_CLOSE" THEN "FUNCTION"
    ELSE At(s.ch, p).parent

\* lines 693-717: a namespace brace directly inside a namespace brace
open_single(s, p) ==
    /\ At(s.ch, p).parent = "NAMESPACE"
    /\ At(s.ch, top(s.frm).pc).parent = "NAMESPACE"
    /\ s.opts.indent_namespace
    /\ s.opts.indent_namespace_single_indent

\* lines 587-673: the parent of an opener
open_parent(s, p, prv) ==
    IF At(s.ch, p).type \in {"PAREN_OPEN", "FPAREN_OPEN", "SPAREN_OPEN"}
       /\ prv.id # 0
    THEN open_paren_parent(s, p, prv)
    ELSE IF At(s.ch, p).type = "BRACE_OPEN" /\ prv.id # 0
    THEN [s EXCEPT !.pt = open_brace_parent(s, p, prv)]
    ELSE [s EXCEPT !.pt = At(s.ch, p).parent]

\* every open brace counted, the single-indent namespaces included
open_brace_level_always(s, p) ==
    IF At(s.ch, p).type \in {"BRACE_OPEN", "MACRO_OPEN"}
    THEN SizeInc(s.frm.brace_level)
    ELSE s.frm.brace_level

\* lines 688-727: the brace level after an opener
open_brace_level(s, p) ==
    IF At(s.ch, p).type \in {"BRACE_OPEN", "MACRO_OPEN"} /\ ~open_single(s, p)
    THEN SizeInc(s.frm.brace_level)
    ELSE s.frm.brace_level

\* lines 679-731: the level of an opener and its stack entry
open_push(s, p) ==
    IF At(s.ch, p).type \in {"BRACE_OPEN", "PAREN_OPEN", "FPAREN_OPEN",
                             "SPAREN_OPEN", "ANGLE_OPEN", "MACRO_OPEN",
                             "SQUARE_OPEN"}
    THEN [s EXCEPT !.frm = SetTop(push([@ EXCEPT !.level = SizeInc(@),
                                                 !.brace_level =
                                                     open_brace_level(s, p)],
                                       At(s.ch, p), "NONE"),
                                  "parent", s.pt),
                   !.ch = SetF(@, p, "parent", s.pt)]
    ELSE s

\* lines 587-731: the parent of an opener, its level and its stack entry
pc_open(s, p) ==
    IF ~Live(s) THEN s
    ELSE open_push(open_parent(s, p, At(s.ch, GetPrevNcNnl(s.ch, p))), p)

\* frm.at(size - 2): outside the stack when it holds the sentinel alone
at_size_minus_2_valid(f) == Len(f.pse) >= 2

\* lines 740-746, 765-771, 782-788: link pc to the chunk of the entry below
link_parent(s, p) ==
    IF ~at_size_minus_2_valid(s.frm)
    THEN [s EXCEPT !.status = "crash"]
    ELSE LET saved == s.frm.pse[Len(s.frm.pse) - 1].pc
         IN  IF saved # 0
             THEN [s EXCEPT !.ch = SetF(@, p, "pparent", saved)]
             ELSE s

\* lines 734-789: switch braces, case, default and break
pc_switch(s, p) ==
    IF ~Live(s) THEN s
    ELSE
    LET c  == At(s.ch, p)
        s1 == IF c.type = "BRACE_OPEN" /\ c.parent = "SWITCH"
              THEN link_parent(s, p) ELSE s
        s2 == IF s1.status = "run"
                 /\ (c.type = "CASE"
                     \/ (c.type = "DEFAULT"
                         /\ At(s.ch, GetPrevNcNnl(s.ch, p)).type # "ASSIGN"))
              THEN link_parent([s1 EXCEPT !.ch = SetF(@, p, "parent", "SWITCH")], p)
              ELSE s1
    IN  IF s2.status = "run" /\ c.type = "BREAK"
        THEN link_parent(s2, p)
        ELSE s2

\* lines 269-295
maybe_while_of_do(ch, p) ==
    LET prv == At(ch, GetPrevNcNnl(ch, p))
    IN  IF prv.id = 0 \/ "IN_PREPROC" \notin prv.flags
        THEN FALSE
        ELSE prv.type \in {"VBRACE_CLOSE", "BRACE_CLOSE"} /\ prv.parent = "DO"

\* lines 790-825: a stack entry for a complex statement
pc_push(s, p) ==
    IF ~Live(s) THEN s
    ELSE
    LET c == At(s.ch, p)
        patcls == get_token_pattern_class(c.type)
    IN  IF patcls = "BRACED"
        THEN [s EXCEPT !.frm = push(@, c, IF c.type = "DO" THEN "BRACE_DO"
                                                          ELSE "BRACE2")]
        ELSE IF patcls = "PBRACED"
        THEN IF c.type = "WHILE" /\ maybe_while_of_do(s.ch, p)
             THEN LET ch1 == SetF(s.ch, p, "type", "WHILE_OF_DO")
                  IN  [s EXCEPT !.ch = ch1,
                                !.frm = push(@, At(ch1, p), "WOD_PAREN")]
             ELSE [s EXCEPT !.frm = push(@, c, "PAREN1")]
        ELSE IF patcls = "OPBRACED"
        THEN [s EXCEPT !.frm = push(@, c, "OP_PAREN1")]
        ELSE IF patcls = "ELSE"
        THEN [s EXCEPT !.frm = push(@, c, "ELSEIF")]
        ELSE s

\* lines 833-891: simple statement and expression starts
pc_reset(s, p) ==
    IF ~Live(s) THEN s
    ELSE
    LET c   == At(s.ch, p)
        tmp == At(s.ch, GetNextNcNnl(s.ch, p))
        stmt == \/ c.type = "SQUARE_OPEN"
                \/ (c.type = "BRACE_OPEN" /\ c.parent # "ASSIGN")
                \/ c.type = "BRACE_CLOSE"
                \/ c.type = "VBRACE_CLOSE"
                \/ (c.type = "SPAREN_OPEN" /\ c.parent = "FOR")
                \/ c.type = "COLON"
                \/ c.type = "OC_END"
                \/ (IsSemicolon(c)
                    /\ top(s.frm).type \notin {"PAREN_OPEN", "FPAREN_OPEN",
                                               "SPAREN_OPEN"})
                \/ c.type = "MACRO"
        expr == \/ c.type \in {"ARITH", "SHIFT", "ASSIGN", "CASE", "COMPARE",
                               "BOOL", "MINUS", "PLUS", "CARET", "ANGLE_OPEN",
                               "ANGLE_CLOSE", "RETURN", "THROW", "GOTO",
                               "CONTINUE", "PAREN_OPEN", "FPAREN_OPEN",
                               "SPAREN_OPEN", "BRACE_OPEN", "COMMA", "NOT",
                               "INV", "COLON", "QUESTION"}
                \/ (c.type = "STAR" /\ tmp.type # "STAR")
                \/ IsSemicolon(c)
        s1  == IF stmt
               THEN [s EXCEPT !.frm.stmt_count = 0, !.frm.expr_count = 0]
               ELSE s
    IN  IF expr THEN [s1 EXCEPT !.frm.expr_count = 0] ELSE s1

parse_cleanup(s, p) ==
    pc_reset(
     pc_push(
      pc_switch(
       pc_open(
        pc_wod(
         pc_close(
          pc_vbsemi(
           pc_complex(
            pc_sparen(
             pc_mark(s, p),
            p), p), p), p), p), p), p), p), p)

----------------------------------------------------------------------------
(* mark_namespace() and the hooks it uses *)

\* Chunk::GetClosingParen of an open brace: the brace that balances it
GetClosingParen(ch, id) ==
    LET i == Pos(ch, id)
        Opens(j)  == Cardinality({k \in i..j : ch[k].type = "BRACE_OPEN"})
        Closes(j) == Cardinality({k \in i..j : ch[k].type = "BRACE_CLOSE"})
        S == {j \in (i + 1)..Len(ch) : Opens(j) = Closes(j)}
    IN  IF S = {} THEN 0 ELSE ch[SetMin(S)].id

\* flag_parens(po, flags, CT_NONE, parenttype, false)
flag_parens(ch, po, flags, parenttype) ==
    LET cl == GetClosingParen(ch, po)
    IN  IF cl = 0 THEN ch
        ELSE LET a == Pos(ch, po)
                 b == Pos(ch, cl)
             IN  [k \in 1..Len(ch) |->
                    IF k > a /\ k < b
                    THEN [ch[k] EXCEPT !.flags = @ \cup flags]
                    ELSE IF k = a \/ k = b
                    THEN [ch[k] EXCEPT !.parent = parenttype]
                    ELSE ch[k]]

\* line 1266: size_t numberOfLines
numberOfLines(open, close) ==
    IF close.line - open.line - 1 < 0 THEN SIZE_MAX
    ELSE close.line - open.line - 1

\* lines 1260-1282: pc is the open brace of the namespace
mark_namespace_brace(ch, id, o) ==
    LET br_close == GetClosingParen(ch, id)
        long == /\ o.indent_namespace_limit > 0
                /\ br_close # 0
                /\ numberOfLines(At(ch, id), At(ch, br_close))
                      > o.indent_namespace_limit
        ch1 == IF long
               THEN SetFlagBits(SetFlagBits(ch, id, {"LONG_BLOCK"}),
                                br_close, {"LONG_BLOCK"})
               ELSE ch
    IN  flag_parens(ch1, id, {"IN_NAMESPACE"}, "NAMESPACE")

\* lines 1243-1283: the loop over the chunks after the 'namespace'
RECURSIVE mark_namespace_walk(_, _, _, _)
mark_namespace_walk(ch, id, is_using, o) ==
    IF id = 0 THEN ch
    ELSE LET ch1 == SetF(ch, id, "parent", "NAMESPACE")
         IN  IF At(ch, id).type # "BRACE_OPEN"
             THEN IF At(ch, id).type = "SEMICOLON"
                  THEN IF is_using THEN SetF(ch1, id, "parent", "USING") ELSE ch1
                  ELSE mark_namespace_walk(ch1, GetNextNcNnl(ch1, id), is_using, o)
             ELSE mark_namespace_brace(ch1, id, o)

\* lines 1227-1284
mark_namespace(ch, pns, o) ==
    LET is_using == At(ch, GetPrevNcNnl(ch, pns)).type = "USING"
        ch1 == IF is_using THEN SetF(ch, pns, "parent", "USING") ELSE ch
    IN  mark_namespace_walk(ch1, GetNextNcNnl(ch1, pns), is_using, o)

----------------------------------------------------------------------------
(* The frame list and preproc_start(); b is the brace state                *)
(* [frames, frm, in_preproc, pp_level] and ret the value returned          *)

fl_push(b) == [b EXCEPT !.frames = Append(@, b.frm)]

fl_pop(b) ==
    IF b.frames = <<>> THEN b
    ELSE [b EXCEPT !.frm = b.frames[Len(b.frames)],
                   !.frames = SubSeq(@, 1, Len(@) - 1)]

\* #if, #else, #elif, #endif
fl_check(b) ==
    LET n == Len(b.frames)
    IN  IF b.in_preproc = "PP_IF"
        THEN [fl_push(b) EXCEPT !.pp_level = @ + 1, !.ret = b.pp_level]
        ELSE IF b.in_preproc = "PP_ELSE"
        THEN IF n = 0 THEN [b EXCEPT !.ret = b.pp_level]
             ELSE [b EXCEPT !.frames = SubSeq(@, 1, n - 1) \o <<b.frm>>
                                          \o <<b.frames[n]>>,
                            !.frm = b.frames[n],
                            !.ret = IF b.pp_level > 0 THEN b.pp_level - 1 ELSE 0]
        ELSE IF b.in_preproc = "PP_ENDIF"
        THEN [b EXCEPT !.frames = IF n = 0 THEN @ ELSE SubSeq(@, 1, n - 1),
                       !.pp_level = IF @ > 0 THEN @ - 1 ELSE 0,
                       !.ret = IF b.pp_level > 0 THEN b.pp_level - 1 ELSE 0]
        ELSE [b EXCEPT !.ret = b.pp_level]

\* no dummy entry is pushed: line 147 gives its type to the sentinel
preproc_start_bare(b, ch, p) ==
    LET next == GetNextNcNnl(ch, p)
    IN  IF next = 0 THEN [b EXCEPT !.ret = b.pp_level]
        ELSE LET b1 == [b EXCEPT !.in_preproc = At(ch, next).type]
             IN  IF b1.in_preproc # "PP_DEFINE"
                 THEN fl_check(b1)
                 ELSE [fl_push(b1) EXCEPT
                         !.frm = SetTop([NewFrame EXCEPT !.level = 1,
                                                         !.brace_level = 1],
                                        "type", "PP_DEFINE"),
                         !.ret = b.pp_level]

\* lines 117-150
preproc_start(b, ch, p) ==
    LET next == GetNextNcNnl(ch, p)
    IN  IF next = 0 THEN [b EXCEPT !.ret = b.pp_level]
        ELSE LET b1 == [b EXCEPT !.in_preproc = At(ch, next).type]
             IN  IF b1.in_preproc # "PP_DEFINE"
                 THEN fl_check(b1)
                 ELSE [fl_push(b1) EXCEPT
                         !.frm = SetTop(push([NewFrame EXCEPT !.level = 1,
                                                              !.brace_level = 1],
                                             NullChunk, "NONE"),
                                        "type", "PP_DEFINE"),
                         !.ret = b.pp_level]

----------------------------------------------------------------------------
(* brace_cleanup(): one iteration of the sweep *)

\* leaving a #define body keeps the frame of the body
leave_preproc_keep(b, c) ==
    IF b.in_preproc # "NONE" /\ "IN_PREPROC" \notin c.flags
    THEN [b EXCEPT !.in_preproc = "NONE"]
    ELSE b

\* lines 195-212: leaving a #define body restores the frame
leave_preproc(b, c) ==
    IF b.in_preproc # "NONE" /\ "IN_PREPROC" \notin c.flags
    THEN [(IF b.in_preproc = "PP_DEFINE" THEN fl_pop(b) ELSE b)
            EXCEPT !.in_preproc = "NONE"]
    ELSE b

\* an attribute is given to parse_cleanup() like a word
IsParsed_attribute(c, inpp) ==
    /\ ~IsCommentOrNewline(c)
    /\ c.type # "IGNORED"
    /\ inpp \in {"PP_DEFINE", "NONE"}

\* lines 254-258: the chunks given to parse_cleanup()
IsParsed(c, inpp) ==
    /\ ~IsCommentOrNewline(c)
    /\ c.type # "ATTRIBUTE"
    /\ c.type # "IGNORED"
    /\ inpp \in {"PP_DEFINE", "NONE"}

\* lines 214-224: the preprocessor bookkeeping; b.ret keeps pp_level
sweep_preproc(b, ch, p) ==
    IF At(ch, p).type = "PREPROC"
    THEN preproc_start(b, ch, p)
    ELSE [b EXCEPT !.ret = b.pp_level]

\* lines 239-243: mark the braces of a namespace
sweep_namespace(ch, p, o) ==
    IF At(ch, p).type = "NAMESPACE" THEN mark_namespace(ch, p, o) ELSE ch

\* the levels of the frame added to those the chunk has
sweep_assign_add(ch, p, b) ==
    SetF(SetF(SetF(ch, p, "level", At(ch, p).level + b.frm.level),
              p, "brace_level", At(ch, p).brace_level + b.frm.brace_level),
         p, "pp_level", b.ret)

\* lines 244-247: assume the level will not change
sweep_assign(ch, p, b) ==
    SetF(SetF(SetF(ch, p, "level", b.frm.level),
              p, "brace_level", b.frm.brace_level),
         p, "pp_level", b.ret)

\* the state parse_cleanup() is called with
SweepState(ch, b, cons, o, log) ==
    [ch |-> ch, frm |-> b.frm, consumed |-> cons,
     status |-> "run", code |-> 0, done |-> FALSE, ret |-> FALSE,
     returned |-> FALSE, log |-> log, opts |-> o,
     ev |-> "none", evfrm |-> b.frm, pt |-> "NONE",
     calls |-> <<>>, nest |-> 0]

\* lines 253-263: parse_cleanup() runs on what IsParsed() lets through
SweepParse(s, p, parsed) ==
    IF parsed
    THEN parse_cleanup([s EXCEPT !.consumed = FALSE], p)
    ELSE s

\* history: s0 is the state before parse_cleanup(), s1 the state after it
SweepResult(s0, s1, b, p, parsed) ==
    [s |-> s1, b |-> b,
     last |-> [id |-> p, type |-> At(s0.ch, p).type, parsed |-> parsed,
               frm |-> b.frm, ev |-> s1.ev, evfrm |-> s1.evfrm,
               nlog |-> Len(s0.log), calls |-> s1.calls,
               parent |-> At(s0.ch, p).parent,
               topparent |-> At(s0.ch, top(b.frm).pc).parent]]

SweepStep(s0, b, p, parsed) ==
    SweepResult(s0, SweepParse(s0, p, parsed), b, p, parsed)

SweepChunk(ch, b, p, cons, o, log) ==
    SweepStep(SweepState(ch, b, cons, o, log), b, p,
              IsParsed(At(ch, p), b.in_preproc))

SweepLevels(ch, b, p, cons, o, log) ==
    SweepChunk(sweep_assign(sweep_namespace(ch, p, o), p, b), b, p, cons, o, log)

\* lines 192-264: the body of the loop, for the chunk pc
SweepBody(ch, p, b, cons, o, log) ==
    SweepLevels(ch, sweep_preproc(leave_preproc(b, At(ch, p)), ch, p),
                p, cons, o, log)

\* history: the chunks one iteration inserted, after and before the chunk p
InsertedAfter(ch0, ch1, p) ==
    {ch1[i].id : i \in {j \in 1..Len(ch1) :
                           /\ \A k \in 1..Len(ch0) : ch0[k].id # ch1[j].id
                           /\ j > Pos(ch1, p)}}

InsertedBefore(ch0, ch1, p) ==
    {ch1[i].id : i \in {j \in 1..Len(ch1) :
                           /\ \A k \in 1..Len(ch0) : ch0[k].id # ch1[j].id
                           /\ j < Pos(ch1, p)}}

Sweep ==
    /\ status = "run"
    /\ pc # 0
    /\ \E r \in {SweepBody(chunks, pc,
                            [frames |-> frames, frm |-> frm,
                             in_preproc |-> in_preproc, pp_level |-> pp_level,
                             ret |-> 0],
                            consumed, opts, popLog)} :
           /\ chunks' = r.s.ch
           /\ frm' = r.s.frm
           /\ consumed' = r.s.consumed
           /\ popLog' = r.s.log
           /\ status' = r.s.status
           /\ exit_code' = r.s.code
           /\ frames' = r.b.frames
           /\ in_preproc' = r.b.in_preproc
           /\ pp_level' = r.b.pp_level
           /\ pc' = IF r.s.status = "run" THEN GetNext(r.s.ch, pc) ELSE pc
           /\ visited' = Append(visited, pc)
           /\ reached' = Append(reached, [id |-> pc, frm |-> r.last.frm,
                                          type |-> r.last.type,
                                          parent |-> r.last.parent,
                                          topparent |-> r.last.topparent,
                                          parsed |-> r.last.parsed,
                                          before |-> frm,
                                          depth0 |-> Len(frames),
                                          depth |-> Len(r.b.frames),
                                          after |-> InsertedAfter(chunks, r.s.ch, pc),
                                          ahead |-> InsertedBefore(chunks, r.s.ch, pc)])
           /\ last' = r.last
    /\ UNCHANGED <<opts, input>>

\* line 190: the sweep is past the last chunk, brace_cleanup() returns
Finish ==
    /\ status = "run"
    /\ pc = 0
    /\ status' = "done"
    /\ UNCHANGED <<input, chunks, pc, frm, frames, in_preproc, pp_level, consumed,
                   exit_code, opts, popLog, visited, reached, last>>

Next == Sweep \/ Finish

----------------------------------------------------------------------------
(* Inputs: token lists as the tokenizer hands them over *)

\* the chunks one input symbol stands for
Expand(sym) ==
    CASE sym = "#define" -> <<"PREPROC", "PP_DEFINE", "MACRO">>
      [] sym = "#if"     -> <<"PREPROC", "PP_IF", "PREPROC_BODY">>
      [] sym = "#else"   -> <<"PREPROC", "PP_ELSE">>
      [] sym = "#endif"  -> <<"PREPROC", "PP_ENDIF">>
      [] OTHER           -> <<sym>>

RECURSIVE Flatten(_)
Flatten(syms) ==
    IF syms = <<>> THEN <<>> ELSE Expand(Head(syms)) \o Flatten(Tail(syms))

StrOf(t) ==
    CASE t \in {"PAREN_CLOSE", "SPAREN_CLOSE", "FPAREN_CLOSE"} -> ")"
      [] t = "SQUARE_CLOSE" -> "]"
      [] t = "ASSIGN" -> "="
      [] OTHER -> "tok"

\* the tokenizer flags a directive's chunks, up to the newline ending it
InPreproc(toks, i) ==
    \E j \in 1..i : /\ toks[j] = "PREPROC"
                    /\ \A k \in (j + 1)..i : toks[k] # "NEWLINE"

MkChunks(toks) ==
    [i \in 1..Len(toks) |->
        [id |-> i, type |-> toks[i], parent |-> "NONE", level |-> 0,
         brace_level |-> 0, pp_level |-> 0,
         flags |-> IF InPreproc(toks, i) THEN {"IN_PREPROC"} ELSE {},
         str |-> StrOf(toks[i]),
         line |-> 1 + Cardinality({k \in 1..(i - 1) : toks[k] = "NEWLINE"}),
         pparent |-> 0]]

SeqsUpTo(A, n) == UNION {[1..k -> A] : k \in 0..n}

DefaultOpts ==
    [lang |-> "CPP", indent_else_if |-> FALSE, indent_using_block |-> TRUE,
     indent_namespace |-> FALSE, indent_namespace_single_indent |-> FALSE,
     indent_namespace_limit |-> 0]

InitWith(Inputs, Options) ==
    /\ \E syms \in Inputs : input = Flatten(syms)
    /\ chunks = MkChunks(input)
    /\ pc = IF chunks = <<>> THEN 0 ELSE chunks[1].id
    /\ frm = NewFrame
    /\ frames = <<>>
    /\ in_preproc = "NONE"
    /\ pp_level = 0
    /\ consumed = FALSE
    /\ status = "run"
    /\ exit_code = 0
    /\ opts \in Options
    /\ popLog = <<>>
    /\ visited = <<>>
    /\ reached = <<>>
    /\ last = [id |-> 0, type |-> "NONE", parsed |-> FALSE, frm |-> NewFrame,
               ev |-> "none", evfrm |-> NewFrame, nlog |-> 0, calls |-> <<>>,
               parent |-> "NONE", topparent |-> "NONE"]

\* every token list of up to MaxLen symbols over A, after one of the Prefixes
InputsOf(Prefixes, A) ==
    {p \o s : p \in Prefixes, s \in SeqsUpTo(A, MaxLen)}

\* brackets, if/else and statements
Alphabet ==
    {"IF", "ELSE", "PAREN_OPEN", "PAREN_CLOSE", "BRACE_OPEN", "BRACE_CLOSE",
     "SEMICOLON", "WORD"}

\* "if (c) s1; else s2;" with one or two chunks for c, s1 and s2
IfElseInputs ==
    {<<"IF", "PAREN_OPEN">> \o c \o <<"PAREN_CLOSE">> \o s1
        \o <<"SEMICOLON", "ELSE">> \o s2 \o <<"SEMICOLON">> :
        c \in {<<"WORD">>, <<"WORD", "COMPARE", "WORD">>},
        s1 \in {<<"WORD">>, <<"WORD", "ASSIGN", "WORD">>},
        s2 \in {<<"WORD">>, <<"WORD", "ASSIGN", "WORD">>}}

\* what the token lists start with: nothing, "if ( )", "{ if ( )"
Prefixes ==
    {<<>>,
     <<"IF", "PAREN_OPEN", "PAREN_CLOSE">>,
     <<"BRACE_OPEN", "IF", "PAREN_OPEN", "PAREN_CLOSE">>}

Init == InitWith(InputsOf(Prefixes, Alphabet) \cup IfElseInputs, {DefaultOpts})

Spec == Init /\ [][Next]_vars

----------------------------------------------------------------------------
(* Namespaces: "namespace a { x namespace b { y } }" and "namespace a { x }",  *)
(* with and without the single-indent options                              *)

NsOpts ==
    [DefaultOpts EXCEPT !.indent_namespace = TRUE,
                        !.indent_namespace_single_indent = TRUE]

Fill == SeqsUpTo({"WORD", "SEMICOLON"}, MaxLen - 1)

NsInputs ==
    {<<"NAMESPACE", "WORD", "BRACE_OPEN">> \o x \o inner \o <<"BRACE_CLOSE">> :
        x \in Fill,
        inner \in {<<>>} \cup
                  {<<"NAMESPACE", "WORD", "BRACE_OPEN">> \o y \o <<"BRACE_CLOSE">> :
                      y \in Fill}}

InitNs == InitWith(NsInputs, {DefaultOpts, NsOpts})

SpecNs == InitNs /\ [][Next]_vars

----------------------------------------------------------------------------
(* The body of a #define: brackets, after "#define M" and after           *)
(* "#define M do { } while ( )"                                            *)

PPAlphabet ==
    {"PAREN_OPEN", "PAREN_CLOSE", "BRACE_OPEN", "BRACE_CLOSE", "SEMICOLON",
     "NEWLINE"}

PPPrefixes ==
    {<<"#define">>,
     <<"#define", "DO", "BRACE_OPEN", "BRACE_CLOSE", "WHILE", "PAREN_OPEN",
       "PAREN_CLOSE">>}

InitPP == InitWith(InputsOf(PPPrefixes, PPAlphabet), {DefaultOpts})

SpecPP == InitPP /\ [][Next]_vars

----------------------------------------------------------------------------
(* What follows the keyword of a statement with parentheses: "if", "while", *)
(* "for", "switch" and the "if" of "if ( ) ; else if"                       *)

ParenAlphabet ==
    {"PAREN_OPEN", "PAREN_CLOSE", "BRACE_OPEN", "WORD", "CONSTEXPR",
     "AUTORELEASEPOOL"}

ParenPrefixes ==
    {<<"IF">>, <<"WHILE">>, <<"FOR">>, <<"SWITCH">>,
     <<"IF", "PAREN_OPEN", "PAREN_CLOSE", "SEMICOLON", "ELSE", "IF">>}

InitParen == InitWith(InputsOf(ParenPrefixes, ParenAlphabet), {DefaultOpts})

SpecParen == InitParen /\ [][Next]_vars

----------------------------------------------------------------------------
(* do <body> while ( cond ) ;  after "do { }", "do x ;" and "do { } while (" *)

DoAlphabet ==
    {"WHILE", "PAREN_OPEN", "PAREN_CLOSE", "SEMICOLON", "WORD",
     "AUTORELEASEPOOL"}

DoPrefixes ==
    {<<"DO", "BRACE_OPEN", "BRACE_CLOSE">>,
     <<"DO", "WORD", "SEMICOLON">>,
     <<"DO", "BRACE_OPEN", "BRACE_CLOSE", "WHILE", "PAREN_OPEN">>}

InitDo == InitWith(InputsOf(DoPrefixes, DoAlphabet), {DefaultOpts})

SpecDo == InitDo /\ [][Next]_vars

----------------------------------------------------------------------------
(* C#: what follows "try { } catch"                                         *)

CsOpts == [DefaultOpts EXCEPT !.lang = "CS"]

CsAlphabet ==
    {"PAREN_OPEN", "PAREN_CLOSE", "BRACE_OPEN", "BRACE_CLOSE", "WHEN", "WORD",
     "CATCH"}

CsPrefixes == {<<"TRY", "BRACE_OPEN", "BRACE_CLOSE", "CATCH">>}

InitCs == InitWith(InputsOf(CsPrefixes, CsAlphabet), {CsOpts})

SpecCs == InitCs /\ [][Next]_vars

----------------------------------------------------------------------------
(* Statement parentheses: what follows "for (", "if (", "if ( for ( )"      *)

ForAlphabet ==
    {"FOR", "PAREN_OPEN", "PAREN_CLOSE", "BRACE_OPEN", "BRACE_CLOSE",
     "SEMICOLON", "WORD", "COMMENT"}

ForPrefixes ==
    {<<>>,
     <<"FOR", "PAREN_OPEN">>,
     <<"IF", "PAREN_OPEN">>,
     <<"IF", "PAREN_OPEN", "FOR", "PAREN_OPEN", "PAREN_CLOSE">>}

InitFor == InitWith(InputsOf(ForPrefixes, ForAlphabet), {DefaultOpts})

SpecFor == InitFor /\ [][Next]_vars

----------------------------------------------------------------------------
(* brace_cleanup() as a function of the token list: the sweep from the      *)
(* first chunk to the return or the exit()                                  *)

RECURSIVE RunFrom(_, _, _, _, _, _)

\* r is what one iteration of the loop on the chunk p left
RunNext(r, p, o) ==
    IF r.s.status # "run"
    THEN [ch |-> r.s.ch, status |-> r.s.status]
    ELSE RunFrom(r.s.ch, GetNext(r.s.ch, p), [r.b EXCEPT !.frm = r.s.frm],
                 r.s.consumed, o, r.s.log)

\* lines 190-265: the loop from the chunk p on
RunFrom(ch, p, b, cons, o, log) ==
    IF p = 0
    THEN [ch |-> ch, status |-> "done"]
    ELSE RunNext(SweepBody(ch, p, b, cons, o, log), p, o)

\* lines 182-266: the pass on the chunk list ch
brace_cleanup_list(ch, o) ==
    RunFrom(ch, IF ch = <<>> THEN 0 ELSE ch[1].id,
            [frames |-> <<>>, frm |-> NewFrame, in_preproc |-> "NONE",
             pp_level |-> 0, ret |-> 0],
            FALSE, o, <<>>)

\* the pass on the list the tokenizer makes of toks
brace_cleanup(toks, o) == brace_cleanup_list(MkChunks(toks), o)

----------------------------------------------------------------------------
(* Directives: a "#" is the first chunk of its line                         *)

Directives == {"#define", "#if", "#else", "#endif"}

DirectivesStartLines(syms) ==
    \A i \in 1..Len(syms) :
        syms[i] \in Directives => (i = 1 \/ syms[i - 1] = "NEWLINE")

DirectiveInputs(Pre, A) ==
    {syms \in InputsOf(Pre, A) : DirectivesStartLines(syms)}

\* a #define at the top, in a brace, after "if (", and one with a do body
DefAlphabet ==
    {"BRACE_OPEN", "BRACE_CLOSE", "PAREN_OPEN", "PAREN_CLOSE", "WORD",
     "NEWLINE", "WHILE", "#define"}

DefPrefixes ==
    {<<"#define">>,
     <<"BRACE_OPEN", "NEWLINE", "#define">>,
     <<"IF", "PAREN_OPEN", "NEWLINE", "#define">>,
     <<"#define", "DO", "BRACE_OPEN", "BRACE_CLOSE">>}

InitDef == InitWith(DirectiveInputs(DefPrefixes, DefAlphabet), {DefaultOpts})

SpecDef == InitDef /\ [][Next]_vars

\* #if / #else / #endif at the top, after an open brace, and after a
\* complete #if / #else / #endif inside the branch of an #if
IfAlphabet ==
    {"BRACE_OPEN", "BRACE_CLOSE", "WORD", "NEWLINE", "#if", "#else", "#endif"}

IfPrefixes ==
    {<<"#if", "NEWLINE">>,
     <<"BRACE_OPEN", "NEWLINE", "#if", "NEWLINE">>,
     <<"#if", "NEWLINE", "BRACE_OPEN", "NEWLINE", "#else", "NEWLINE">>,
     <<"#if", "NEWLINE", "#if", "NEWLINE", "BRACE_OPEN", "NEWLINE", "#else",
       "NEWLINE", "#endif", "NEWLINE">>}

InitIf == InitWith(DirectiveInputs(IfPrefixes, IfAlphabet), {DefaultOpts})

SpecIf == InitIf /\ [][Next]_vars

----------------------------------------------------------------------------
(* Properties *)

\* the entries of a frame's stack that are open brackets, open curly braces
BracketEntries(f) ==
    {i \in 1..Len(f.pse) : f.pse[i].type \in BracketOpeners
                             /\ f.pse[i].stage = "NONE"}
CurlyEntries(f) ==
    {i \in 1..Len(f.pse) : f.pse[i].type \in CurlyOpeners
                             /\ f.pse[i].stage = "NONE"}

\* the level a frame starts from: 1 in the frame of a #define, else 0
FrameBase(f) ==
    IF \E i \in 1..Len(f.pse) : f.pse[i].type = "PP_DEFINE" THEN 1 ELSE 0

\* the pops of bracket entries: an opener chunk and the chunk closing it
BracketPops ==
    {k \in 1..Len(popLog) : /\ popLog[k].type \in BracketOpeners
                             /\ popLog[k].stage = "NONE"
                             /\ popLog[k].opener # 0}

\* C1: when brace_cleanup() returns (the sweep reached the end of the list
\* without an exit()), the stack of the current frame holds the sentinel
\* alone and level, brace_level and sparen_count are 0
C1_BalancedAtEnd ==
    status = "done" =>
        /\ Len(frm.pse) = 1
        /\ frm.level = 0
        /\ frm.brace_level = 0
        /\ frm.sparen_count = 0

\* C3: in every reachable state frm.level is the number of open brackets on
\* the stack and frm.brace_level the number of open curly braces (real or
\* virtual), counted from the base of the frame
C3_LevelsCountOpenBrackets ==
    /\ frm.level = FrameBase(frm) + Cardinality(BracketEntries(frm))
    /\ frm.brace_level = FrameBase(frm) + Cardinality(CurlyEntries(frm))

\* C4: when the pass has ended, the closer of every matched bracket pair has
\* the level, the brace_level and the parent type of its opener
C4_CloserLikeOpener ==
    status = "done" =>
        \A k \in BracketPops :
            LET o == At(chunks, popLog[k].opener)
                c == At(chunks, popLog[k].closer)
            IN  /\ c.level = o.level
                /\ c.brace_level = o.brace_level
                /\ c.parent = o.parent

----------------------------------------------------------------------------
(* Pops of bracket entries *)

\* the position of a chunk in the token list
PosOf(id) == Pos(chunks, id)

\* the opener chunk of pop k is before the closer chunk of pop k
OpenerFirst(k) == PosOf(popLog[k].opener) < PosOf(popLog[k].closer)

\* the pairs of pops j and k overlap: j opens, k opens, j closes, k closes
Interleaved(j, k) ==
    /\ PosOf(popLog[j].opener) < PosOf(popLog[k].opener)
    /\ PosOf(popLog[k].opener) < PosOf(popLog[j].closer)
    /\ PosOf(popLog[j].closer) < PosOf(popLog[k].closer)

\* the pops the last step made
LastPops == {k \in BracketPops : k > last.nlog}

\* every pop of a bracket entry is made by a chunk of the paired closer
\* type that comes after the opener; no opener and no closer is in two pops;
\* the pairs nest
PopsPairedAndNested ==
    /\ \A k \in BracketPops :
           /\ popLog[k].ctype = TokenPlusOne(popLog[k].type)
           /\ OpenerFirst(k)
    /\ \A j, k \in BracketPops :
           j # k => /\ popLog[j].opener # popLog[k].opener
                    /\ popLog[j].closer # popLog[k].closer
                    /\ ~Interleaved(j, k)

\* the closer that reached the open / close check popped the top iff it pairs
CheckedCloserPopsIffPaired ==
    /\ last.ev = "match" =>
           /\ TokenPlusOne(top(last.evfrm).type) = At(chunks, last.id).type
           /\ \E k \in LastPops : /\ popLog[k].closer = last.id
                                   /\ popLog[k].opener = top(last.evfrm).pc
    /\ last.ev \in {"preproc", "outside"} =>
           /\ TokenPlusOne(top(last.evfrm).type) # At(chunks, last.id).type
           /\ \A k \in BracketPops : popLog[k].closer # last.id

\* an open bracket on the stack has not been popped
OpenNotPopped ==
    \A i \in BracketEntries(frm) :
        \A k \in BracketPops : popLog[k].opener # frm.pse[i].pc

----------------------------------------------------------------------------
(* Virtual braces *)

ChunkIds == {chunks[i].id : i \in 1..Len(chunks)}
VbraceOpens == {id \in ChunkIds : At(chunks, id).type = "VBRACE_OPEN"}
VbraceCloses == {id \in ChunkIds : At(chunks, id).type = "VBRACE_CLOSE"}
CurlyPops == {k \in BracketPops : popLog[k].type \in CurlyOpeners}

\* the pops that closed the virtual brace v, the stack entries that hold it
ClosesOf(v) ==
    {k \in BracketPops : /\ popLog[k].opener = v
                          /\ popLog[k].closer \in VbraceCloses
                          /\ OpenerFirst(k)}
EntriesOf(v) == {i \in 1..Len(frm.pse) : frm.pse[i].pc = v}

\* the semicolons directly inside the virtual brace v, after it
SemicolonsIn(v) ==
    {id \in ChunkIds : /\ At(chunks, id).type = "SEMICOLON"
                        /\ PosOf(v) < PosOf(id)
                        /\ At(chunks, id).level = At(chunks, v).level + 1}

\* real and virtual brace pairs nest, and every VBRACE_CLOSE closes one pair
BracePairsNest ==
    /\ \A j, k \in CurlyPops : ~Interleaved(j, k)
    /\ \A c \in VbraceCloses :
           Cardinality({k \in BracketPops : popLog[k].closer = c}) = 1

----------------------------------------------------------------------------
(* if ( c ) s1 ; else s2 ; *)

\* the list "if ( c ) s1 ; else s2 ;" is to become: the parentheses are
\* those of a statement, a virtual open follows ")" and "else", a virtual
\* close follows each ";"
RECURSIVE Braced(_)
Braced(toks) ==
    IF toks = <<>> THEN <<>>
    ELSE (CASE Head(toks) = "PAREN_OPEN"  -> <<"SPAREN_OPEN">>
            [] Head(toks) = "PAREN_CLOSE" -> <<"SPAREN_CLOSE", "VBRACE_OPEN">>
            [] Head(toks) = "ELSE"        -> <<"ELSE", "VBRACE_OPEN">>
            [] Head(toks) = "SEMICOLON"   -> <<"SEMICOLON", "VBRACE_CLOSE">>
            [] OTHER                      -> <<Head(toks)>>)
         \o Braced(Tail(toks))

IsVbrace(c) == c.type \in {"VBRACE_OPEN", "VBRACE_CLOSE"}

TypesOf(ch) == [i \in 1..Len(ch) |-> ch[i].type]
ParentsOf(ch) == [i \in 1..Len(ch) |-> ch[i].parent]

IsIfElse == \E x \in IfElseInputs : input = Flatten(x)

\* the two pairs of "if ( c ) s1 ; else s2 ;"
IfElsePairs ==
    /\ TypesOf(chunks) = Braced(input)
    /\ ParentsOf(SelectSeq(chunks, IsVbrace)) = <<"IF", "IF", "ELSE", "ELSE">>
    /\ Cardinality({k \in BracketPops : popLog[k].type = "VBRACE_OPEN"}) = 2

\* a virtual open on the stack lies on the entry of the complex statement
\* whose body it starts, and has the type of that entry as parent
VbraceOpenOwned ==
    \A i \in 1..Len(frm.pse) :
        frm.pse[i].type = "VBRACE_OPEN" =>
            /\ i > 1
            /\ frm.pse[i - 1].stage \in {"BRACE2", "BRACE_DO"}
            /\ frm.pse[i].parent = frm.pse[i - 1].type
            /\ At(chunks, frm.pse[i].pc).parent = frm.pse[i - 1].type

\* a virtual close has the parent of the virtual open it closes, the type of
\* a complex statement
VbraceCloseOwned ==
    \A k \in BracketPops :
        popLog[k].type = "VBRACE_OPEN" =>
            /\ At(chunks, popLog[k].closer).parent
                   = At(chunks, popLog[k].opener).parent
            /\ get_token_pattern_class(At(chunks, popLog[k].opener).parent)
                   # "NONE"

\* C6: after "if ( c ) s1 ; else s2 ;" there are exactly two virtual brace
\* pairs, around "s1 ;" with parent IF and around "s2 ;" with parent ELSE,
\* and the parentheses are SPAREN_OPEN and SPAREN_CLOSE; in every state
\* each virtual brace has as parent the type of the entry of the complex
\* statement whose body it delimits
C6_IfElseVbraces ==
    /\ (status = "done" /\ IsIfElse) => IfElsePairs
    /\ VbraceOpenOwned
    /\ VbraceCloseOwned

\* C6: "if ( c ) s1 ; else s2 ;" has been swept
C6_Witness ==
    /\ status = "done"
    /\ IsIfElse
    /\ Cardinality(VbraceCloses) = 2

----------------------------------------------------------------------------
(* Closers that do not pair with the top *)

\* C7: a closer that is not flagged IN_PREPROC and does not pair with the
\* top of the stack aborts the process, with the exit code 70
C7_MismatchAborts70 ==
    last.ev = "outside" => status = "abort" /\ exit_code = EX_SOFTWARE

\* C8: a closer that is flagged IN_PREPROC and does not pair with the top
\* of the stack is accepted: the process is not aborted, nothing is popped
\* and level, brace_level and sparen_count stay as they were
C8_PreprocMismatchAccepted ==
    last.ev = "preproc" =>
        /\ status # "abort"
        /\ frm.pse = last.evfrm.pse
        /\ frm.level = last.evfrm.level
        /\ frm.brace_level = last.evfrm.brace_level
        /\ frm.sparen_count = last.evfrm.sparen_count

----------------------------------------------------------------------------
(* The stages of complex statements; last is the step the sweep just made *)

\* the top entry the chunk of the last step was met with
LastTop == top(last.frm)

\* the stack of the last step, with its top entry popped
LastPopped == SubSeq(last.frm.pse, 1, Len(last.frm.pse) - 1)

\* the chunks that check_complex_statements() lets pass in stage PAREN1
Paren1Passes ==
    \/ last.type = "AUTORELEASEPOOL"
    \/ last.type = "CONSTEXPR" /\ LastTop.type \in {"IF", "ELSEIF"}

\* C9 (as stated): when the top entry is in stage PAREN1 and the chunk
\* given to parse_cleanup() is not a PAREN_OPEN, the process aborts with the
\* exit code 70
C9_Paren1OnlyParenOpen ==
    (last.parsed /\ LastTop.stage = "PAREN1" /\ last.type # "PAREN_OPEN") =>
        status = "abort" /\ exit_code = EX_SOFTWARE

\* C9 (amended): when the top entry is in stage PAREN1, a PAREN_OPEN is
\* pushed on it; a CT_AUTORELEASEPOOL, and a CT_CONSTEXPR when the entry is
\* an IF or an ELSEIF, are let pass and leave the stack as it is; on any
\* other chunk the entry is popped and the process aborts with the exit
\* code 70
C9_Paren1ParenOpenOrPasses ==
    (last.parsed /\ LastTop.stage = "PAREN1") =>
        CASE last.type = "PAREN_OPEN" ->
                 /\ status # "abort"
                 /\ Len(frm.pse) = Len(last.frm.pse) + 1
                 /\ top(frm).pc = last.id
                 /\ prev(frm).stage = "PAREN1"
          [] last.type # "PAREN_OPEN" /\ Paren1Passes ->
                 /\ status # "abort"
                 /\ frm.pse = last.frm.pse
          [] OTHER ->
                 /\ status = "abort"
                 /\ exit_code = EX_SOFTWARE
                 /\ frm.pse = LastPopped

\* C9: a word after "if" has aborted the process
C9_Witness ==
    /\ last.parsed
    /\ LastTop.stage = "PAREN1"
    /\ last.type = "WORD"
    /\ status = "abort"

----------------------------------------------------------------------------
(* do <body> while ( cond ) ; *)

\* the stack of the last step, with the top entry made that of a
\* while-of-do that expects its parenthesis
LastAsWhileOfDo ==
    [last.frm.pse EXCEPT ![Len(last.frm.pse)].type = "WHILE_OF_DO",
                         ![Len(last.frm.pse)].stage = "WOD_PAREN"]

\* a bracket that lies on an entry in the given stage was closed by the
\* last step
ClosedOn(stage) ==
    /\ last.ev = "match"
    /\ Len(last.evfrm.pse) >= 2
    /\ prev(last.evfrm).stage = stage

\* an entry that still expects the body of a "do" has no closed body
NoBodyClosedInBraceDo ==
    \A i \in 1..Len(frm.pse) :
        frm.pse[i].stage = "BRACE_DO" =>
            \A k \in BracketPops :
                ~ /\ At(chunks, popLog[k].opener).parent = "DO"
                  /\ PosOf(frm.pse[i].pc) < PosOf(popLog[k].opener)
                  /\ At(chunks, popLog[k].opener).level
                         = At(chunks, frm.pse[i].pc).level

\* the close of the body puts the entry of the "do" in stage WHILE
BodyCloseToWhile ==
    /\ ClosedOn("BRACE_DO") =>
           /\ Len(frm.pse) = Len(last.evfrm.pse) - 1
           /\ top(frm).stage = "WHILE"
    /\ NoBodyClosedInBraceDo

\* in stage WHILE a "while" becomes the while of the do
WhileToWodParen ==
    (last.parsed /\ LastTop.stage = "WHILE" /\ last.type = "WHILE") =>
        /\ status # "abort"
        /\ At(chunks, last.id).type = "WHILE_OF_DO"
        /\ frm.pse = LastAsWhileOfDo

\* the parenthesis after the "while" is that of a statement, and its close
\* puts the entry in stage WOD_SEMI
WodParenToWodSemi ==
    /\ ( /\ last.parsed
         /\ LastTop.stage = "WOD_PAREN"
         /\ last.type = "PAREN_OPEN"
         /\ At(chunks, GetPrevNcNnl(chunks, last.id)).type = "WHILE_OF_DO" ) =>
           /\ At(chunks, last.id).type = "SPAREN_OPEN"
           /\ top(frm).type = "SPAREN_OPEN"
           /\ prev(frm).stage = "WOD_PAREN"
    /\ ClosedOn("WOD_PAREN") =>
           /\ Len(frm.pse) = Len(last.evfrm.pse) - 1
           /\ top(frm).stage = "WOD_SEMI"
           /\ top(last.evfrm).type = "SPAREN_OPEN"
                  => At(chunks, last.id).type = "SPAREN_CLOSE"

\* the semicolon gets the parent WHILE_OF_DO and pops the entry
WodSemiPopped ==
    (last.parsed /\ LastTop.stage = "WOD_SEMI" /\ last.type = "SEMICOLON") =>
        /\ status # "abort"
        /\ At(chunks, last.id).parent = "WHILE_OF_DO"
        /\ Len(frm.pse) < Len(last.frm.pse)
        /\ \E k \in (last.nlog + 1)..Len(popLog) :
               /\ popLog[k].type = "WHILE_OF_DO"
               /\ popLog[k].stage = "WOD_SEMI"
               /\ popLog[k].opener = LastTop.pc
               /\ popLog[k].closer = last.id

\* C10 (as stated): the close of the body of a "do" puts its entry in stage
\* WHILE; a "while" there becomes WHILE_OF_DO and the entry goes to
\* WOD_PAREN, to WOD_SEMI when the parenthesis closes, and is popped
\* by the semicolon, which gets the parent WHILE_OF_DO; any chunk other than
\* "while" in stage WHILE aborts the process
C10_DoWhileStages ==
    /\ BodyCloseToWhile
    /\ WhileToWodParen
    /\ WodParenToWodSemi
    /\ WodSemiPopped
    /\ (last.parsed /\ LastTop.stage = "WHILE" /\ last.type # "WHILE") =>
           status = "abort"

\* C10 (amended): as stated, but a CT_AUTORELEASEPOOL in stage WHILE is let
\* pass and leaves the stack as it is; any chunk other than "while" and
\* CT_AUTORELEASEPOOL pops the entry and aborts the process
C10_DoWhileStagesOrPass ==
    /\ BodyCloseToWhile
    /\ WhileToWodParen
    /\ WodParenToWodSemi
    /\ WodSemiPopped
    /\ (last.parsed /\ LastTop.stage = "WHILE" /\ last.type # "WHILE") =>
           IF last.type = "AUTORELEASEPOOL"
           THEN status # "abort" /\ frm.pse = last.frm.pse
           ELSE status = "abort" /\ frm.pse = LastPopped

\* C10: "do <body> while ( ) ;" has been swept, the semicolon popped the entry
C10_Witness ==
    /\ status = "done"
    /\ \E k \in 1..Len(popLog) :
           /\ popLog[k].stage = "WOD_SEMI"
           /\ At(chunks, popLog[k].opener).type = "DO"
           /\ At(chunks, popLog[k].closer).parent = "WHILE_OF_DO"

----------------------------------------------------------------------------
(* Statement parentheses *)

\* the entries of a frame's stack whose type is SPAREN_OPEN
SparenEntries(f) == {i \in 1..Len(f.pse) : f.pse[i].type = "SPAREN_OPEN"}

\* C11: in every reachable state sparen_count of the current frame is the
\* number of entries of its stack whose type is SPAREN_OPEN
C11_SparenCountIsEntries ==
    frm.sparen_count = Cardinality(SparenEntries(frm))

\* the chunk the sweep reached k-th, as it is now
ReachedChunk(k) == At(chunks, reached[k].id)

\* C12 (as stated): a chunk the sweep has been at carries IN_SPAREN iff some
\* entry of the stack was a SPAREN_OPEN when the sweep reached it
C12_InSparenIffEntry ==
    \A k \in 1..Len(reached) :
        "IN_SPAREN" \in ReachedChunk(k).flags
            <=> SparenEntries(reached[k].frm) # {}

\* C12 (amended): a chunk the sweep has been at carries IN_SPAREN iff it was
\* given to parse_cleanup() while sparen_count was above 0 and it is not a
\* SPAREN_CLOSE: the close of a statement parenthesis, and the comments and
\* newlines inside one, do not carry the flag
C12_InSparenIffCounted ==
    \A k \in 1..Len(reached) :
        "IN_SPAREN" \in ReachedChunk(k).flags
            <=> /\ reached[k].parsed
                /\ reached[k].frm.sparen_count > 0
                /\ ReachedChunk(k).type # "SPAREN_CLOSE"

\* C12: "if ( x" and a comment have been swept inside a statement
\* parenthesis that has been closed
C12_Witness ==
    \E i, j, k \in 1..Len(reached) :
        /\ "IN_SPAREN" \in ReachedChunk(i).flags
        /\ ReachedChunk(j).type = "COMMENT"
        /\ reached[j].frm.sparen_count > 0
        /\ ReachedChunk(k).type = "SPAREN_CLOSE"

\* the entries of a stack that are the entry of a for
ForEntries(f) == {i \in 1..Len(f.pse) : f.pse[i].type = "FOR"}

\* C13 (as stated): a chunk the sweep has been at carries IN_FOR iff the
\* entry of a for was on the stack when it was processed
C13_InForIffEntry ==
    \A k \in 1..Len(reached) :
        "IN_FOR" \in ReachedChunk(k).flags
            <=> reached[k].parsed /\ ForEntries(reached[k].frm) # {}

\* C13 (amended): a chunk the sweep has been at carries IN_FOR iff it was
\* given to parse_cleanup() while sparen_count was above 0 and the entry of a
\* for was on the stack below the top: the chunks of the body of a for that
\* is not inside a statement parenthesis do not carry the flag
C13_InForIffInsideParen ==
    \A k \in 1..Len(reached) :
        "IN_FOR" \in ReachedChunk(k).flags
            <=> /\ reached[k].parsed
                /\ reached[k].frm.sparen_count > 0
                /\ ForEntries(reached[k].frm)
                       \ {Len(reached[k].frm.pse)} # {}

\* C13: a chunk inside "for (" carries IN_FOR, a chunk was met with the
\* entry of a for on top inside "if (", and does not carry it
C13_Witness ==
    \E j, k \in 1..Len(reached) :
        /\ "IN_FOR" \in ReachedChunk(j).flags
        /\ reached[k].parsed
        /\ reached[k].frm.sparen_count > 0
        /\ top(reached[k].frm).type = "FOR"

\* the innermost statement parenthesis of a stack is that of a for
InForParen(f) ==
    /\ SparenEntries(f) # {}
    /\ f.pse[SetMax(SparenEntries(f))].parent = "FOR"

C15_AdjacentLevels ==
    status = "done" =>
        \A i \in 1..(Len(chunks) - 1) :
            ( /\ chunks[i].type \notin BracketOpeners
              /\ chunks[i + 1].type \notin CloserTypes )
                => chunks[i + 1].level = chunks[i].level

\* the k-th chunk the sweep reached is the "#" of a #define
IsDefine(k) ==
    /\ reached[k].type = "PREPROC"
    /\ At(chunks, GetNextNcNnl(chunks, reached[k].id)).type = "PP_DEFINE"

\* the frame a #define body starts with
DefineFrame ==
    [NewFrame EXCEPT !.level = 1, !.brace_level = 1,
                     !.pse = <<Sentinel, [Sentinel EXCEPT !.type = "PP_DEFINE"]>>]

\* the j-th chunk reached is the first chunk after the body of the #define
\* reached k-th
BodyEnd(k, j) ==
    /\ k < j
    /\ "IN_PREPROC" \notin ReachedChunk(j).flags
    /\ \A i \in (k + 1)..(j - 1) : "IN_PREPROC" \in ReachedChunk(i).flags

DefinePushes ==
    \A k \in 1..Len(reached) :
        IsDefine(k) =>
            /\ reached[k].frm = DefineFrame
            /\ reached[k].depth = reached[k].depth0 + 1

DefinePopRestores ==
    \A k, j \in 1..Len(reached) :
        (IsDefine(k) /\ BodyEnd(k, j)) =>
            /\ reached[j].frm = reached[k].before
            /\ reached[j].depth = reached[k].depth0

\* C16: every #define pushes the current frame and starts a frame of level 1,
\* brace_level 1 with one PP_DEFINE entry above the sentinel; the first chunk
\* after its body is swept with the frame that was in force before the "#",
\* and the frame list is as deep as it was before
C16_DefinePushPop == DefinePushes /\ DefinePopRestores

\* C16: a #define with an open brace in its body has been left, with an open
\* bracket before the directive
C16_Witness ==
    \E k, j \in 1..Len(reached) :
        /\ IsDefine(k)
        /\ BodyEnd(k, j)
        /\ Len(reached[k].before.pse) > 1
        /\ \E i \in (k + 1)..(j - 1) : Len(reached[i].frm.pse) > 2

\* the token i of toks lies in the body of a #define: after the name of the
\* macro, before the newline that ends the directive
InDefineBody(toks, i) ==
    \E j \in 1..(i - 1) :
        /\ toks[j] = "MACRO"
        /\ \A k \in (j + 1)..i : toks[k] # "NEWLINE"

RECURSIVE StripFrom(_, _)
StripFrom(toks, i) ==
    IF i > Len(toks) THEN <<>>
    ELSE (IF InDefineBody(toks, i) THEN <<>> ELSE <<toks[i]>>)
            \o StripFrom(toks, i + 1)

\* toks with the bodies of its #defines emptied
StripDefineBodies(toks) == StripFrom(toks, 1)

\* what the pass left on the chunks outside the directives, in list order
Attributes(c) ==
    [type |-> c.type, parent |-> c.parent, level |-> c.level,
     brace_level |-> c.brace_level, flags |-> c.flags]

RECURSIVE OutsideFrom(_, _)
OutsideFrom(ch, i) ==
    IF i > Len(ch) THEN <<>>
    ELSE (IF "IN_PREPROC" \in ch[i].flags THEN <<>> ELSE <<Attributes(ch[i])>>)
            \o OutsideFrom(ch, i + 1)

OutsidePreproc(ch) == OutsideFrom(ch, 1)

\* brace_cleanup() computes what the sweep of the actions leaves
BraceCleanupIsSweep ==
    status # "run" => brace_cleanup(input, opts) = [ch |-> chunks, status |-> status]

\* the same token list with empty #define bodies, run to its return
StrippedRun(toks, o) == brace_cleanup(StripDefineBodies(toks), o)

\* C17: when brace_cleanup() returns on a token list, and returns on the list
\* that differs from it in having the bodies of its #defines empty, the
\* chunks outside the directives, virtual braces included, have the same
\* type, parent, level, brace_level and flags in both
C17_PreprocIsolation ==
    (status = "done" /\ StrippedRun(input, opts).status = "done")
        => OutsidePreproc(chunks) = OutsidePreproc(StrippedRun(input, opts).ch)

\* the directive the k-th chunk reached is the "#" of, or "NONE"
DirectiveAt(k) ==
    IF reached[k].type = "PREPROC"
    THEN At(chunks, GetNextNcNnl(chunks, reached[k].id)).type
    ELSE "NONE"

DirectivesIn(a, b, kind) == {i \in a..b : DirectiveAt(i) = kind}

\* the #else (or #elif) reached j-th belongs to the #if reached k-th
MatchingIf(k, j) ==
    /\ k < j
    /\ DirectiveAt(k) = "PP_IF"
    /\ DirectiveAt(j) = "PP_ELSE"
    /\ Cardinality(DirectivesIn(k + 1, j - 1, "PP_IF"))
           = Cardinality(DirectivesIn(k + 1, j - 1, "PP_ENDIF"))
    /\ \A m \in (k + 1)..(j - 1) :
           Cardinality(DirectivesIn(k + 1, m, "PP_IF"))
               >= Cardinality(DirectivesIn(k + 1, m, "PP_ENDIF"))

\* the #if and the #endif leave the current frame and the #if pushes a copy
IfAndEndifKeepFrame ==
    \A k \in 1..Len(reached) :
        DirectiveAt(k) \in {"PP_IF", "PP_ENDIF"}
            => reached[k].frm = reached[k].before

\* C18: the "#" of an #else or #elif, and the first chunk after the
\* directive, are swept with the frame that was in force at the matching #if;
\* an #if and an #endif leave the current frame as the scan produced it
C18_ElseFromIfState ==
    /\ IfAndEndifKeepFrame
    /\ \A k, j \in 1..Len(reached) :
           MatchingIf(k, j) =>
               /\ reached[j].frm = reached[k].frm
               /\ \A m \in 1..Len(reached) :
                      BodyEnd(j, m) => reached[m].frm = reached[k].frm

\* C19: the pass run on the list a run that returned has left returns too,
\* and leaves the list as it was: no chunk added, no type, parent, level,
\* brace_level or flag changed
C19_Idempotent ==
    status = "done"
        => brace_cleanup_list(chunks, opts) = [ch |-> chunks, status |-> "done"]

\* the run retyped no chunk and inserted none
NothingRetyped == TypesOf(chunks) = input

\* C19 (amended): when a run that returned has retyped no chunk and inserted
\* no virtual brace, the pass run on the list it left returns too and leaves
\* the list as it was
C19_IdempotentIfNothingRetyped ==
    (status = "done" /\ NothingRetyped)
        => brace_cleanup_list(chunks, opts) = [ch |-> chunks, status |-> "done"]

\* C19: a run has returned on a list where it retyped nothing, and left
\* levels, a parent and flags on it
C19_Witness ==
    /\ status = "done"
    /\ NothingRetyped
    /\ \E i, j, k \in 1..Len(chunks) :
           /\ chunks[i].level > 0
           /\ chunks[j].parent # "NONE"
           /\ chunks[k].flags # {}

\* the chunks the sweep has been at
Visited == {visited[i] : i \in 1..Len(visited)}

VisitedOnce ==
    \A i, j \in 1..Len(visited) : visited[i] = visited[j] => i = j

InputVisited ==
    status = "done" => \A id \in 1..Len(input) : id \in Visited

\* C20 (as stated): no chunk is visited twice, and when brace_cleanup()
\* returns the sweep has been at every chunk of the input and at every
\* virtual brace the pass inserted
C20_AllVisited ==
    /\ VisitedOnce
    /\ InputVisited
    /\ status = "done" => (VbraceOpens \cup VbraceCloses) \subseteq Visited

\* C20 (amended): no chunk is visited twice; when brace_cleanup() returns the
\* sweep has been at every chunk of the input; a virtual brace inserted
\* after the current chunk is the next chunk of the sweep; a virtual brace
\* inserted before the current chunk, as every VBRACE_OPEN is, is never
\* visited
C20_VisitedUnlessInsertedBefore ==
    /\ VisitedOnce
    /\ InputVisited
    /\ VbraceOpens \cap Visited = {}
    /\ \A k \in 1..Len(reached) :
           /\ reached[k].ahead \cap Visited = {}
           /\ \A id \in reached[k].after :
                  /\ k < Len(reached) => reached[k + 1].id = id
                  /\ k = Len(reached) => (pc = id \/ status = "abort")

\* C20: brace_cleanup() has returned with a VBRACE_OPEN that was not visited
\* and a VBRACE_CLOSE that was
C20_Witness ==
    /\ status = "done"
    /\ VbraceOpens \ Visited # {}
    /\ VbraceCloses \cap Visited # {}

----------------------------------------------------------------------------
(* switch: what follows "switch ( ) {" and "switch ( ) { if ( )"            *)

SwAlphabet ==
    {"CASE", "DEFAULT", "BREAK", "BRACE_OPEN", "BRACE_CLOSE", "SEMICOLON",
     "ASSIGN"}

SwPrefixes ==
    {<<>>,
     <<"SWITCH", "PAREN_OPEN", "PAREN_CLOSE", "BRACE_OPEN">>,
     <<"SWITCH", "PAREN_OPEN", "PAREN_CLOSE", "BRACE_OPEN", "IF", "PAREN_OPEN",
       "PAREN_CLOSE">>}

InitSw == InitWith(InputsOf(SwPrefixes, SwAlphabet), {DefaultOpts})

SpecSw == InitSw /\ [][Next]_vars

\* the entries of a frame's stack that are the open brace of a switch
SwitchBraces(f) ==
    {i \in 2..Len(f.pse) : /\ f.pse[i].type = "BRACE_OPEN"
                            /\ f.pse[i].parent = "SWITCH"
                            /\ f.pse[i - 1].type = "SWITCH"}

\* the chunk of the innermost switch whose body a frame is in
EnclosingSwitch(f) == f.pse[SetMax(SwitchBraces(f)) - 1].pc

\* the significant token before the input token i
PrevSignificant(i) ==
    LET S == {j \in 1..(i - 1) : input[j] \notin {"COMMENT", "NEWLINE"}}
    IN  IF S = {} THEN "NONE" ELSE input[SetMax(S)]

\* a case, a default that is not "= default", a break
SwitchLabel(r) ==
    \/ r.type = "CASE"
    \/ r.type = "DEFAULT" /\ PrevSignificant(r.id) # "ASSIGN"

\* C21: every CASE, every DEFAULT not preceded by an assignment and every
\* BREAK that parse_cleanup() is given inside the body of a switch, at any
\* nesting depth, has the chunk of the enclosing switch as its parent chunk,
\* and the CASE and DEFAULT chunks have the parent type SWITCH
C21_LinkedToSwitch ==
    \A k \in 1..Len(reached) :
        (/\ reached[k].parsed
         /\ status # "abort" \/ k < Len(reached)
         /\ SwitchBraces(reached[k].frm) # {}
         /\ SwitchLabel(reached[k]) \/ reached[k].type = "BREAK")
        => /\ At(chunks, reached[k].id).pparent = EnclosingSwitch(reached[k].frm)
           /\ SwitchLabel(reached[k])
                  => At(chunks, reached[k].id).parent = "SWITCH"

\* the same for the chunks directly in the body of the switch: the top of
\* the stack is the open brace of the switch
DirectlyInSwitchLinked ==
    \A k \in 1..Len(reached) :
        (/\ reached[k].parsed
         /\ status = "run" \/ status = "done" \/ k < Len(reached)
         /\ SwitchBraces(reached[k].frm) # {}
         /\ SetMax(SwitchBraces(reached[k].frm)) = Len(reached[k].frm.pse)
         /\ SwitchLabel(reached[k]) \/ reached[k].type = "BREAK")
        => /\ At(chunks, reached[k].id).pparent = EnclosingSwitch(reached[k].frm)
           /\ SwitchLabel(reached[k])
                  => At(chunks, reached[k].id).parent = "SWITCH"

----------------------------------------------------------------------------
(* Namespaces in any arrangement: what follows "namespace a {" and          *)
(* "namespace a { namespace b {", under every setting of the two options    *)

NestOpts ==
    {[DefaultOpts EXCEPT !.indent_namespace = a,
                         !.indent_namespace_single_indent = b] :
        a \in BOOLEAN, b \in BOOLEAN}

NestAlphabet ==
    {"NAMESPACE", "WORD", "BRACE_OPEN", "BRACE_CLOSE", "SEMICOLON"}

NestPrefixes ==
    {<<>>,
     <<"NAMESPACE", "WORD", "BRACE_OPEN">>,
     <<"NAMESPACE", "WORD", "BRACE_OPEN", "NAMESPACE", "WORD", "BRACE_OPEN">>}

InitNest == InitWith(InputsOf(NestPrefixes, NestAlphabet), NestOpts)

SpecNest == InitNest /\ [][Next]_vars

\* the frame after the k-th iteration of the sweep
FrameAfter(k) == IF k < Len(reached) THEN reached[k + 1].before ELSE frm

\* the k-th iteration was at the open brace of a namespace
NamespaceOpen(k) ==
    /\ reached[k].parsed
    /\ reached[k].type = "BRACE_OPEN"
    /\ reached[k].parent = "NAMESPACE"
    /\ status = "abort" => k < Len(reached)

\* ... of a namespace directly inside the braces of another namespace
NestedDirectly(k) ==
    /\ top(reached[k].frm).type = "BRACE_OPEN"
    /\ reached[k].topparent = "NAMESPACE"

SingleIndent == opts.indent_namespace /\ opts.indent_namespace_single_indent

\* C22: with indent_namespace and indent_namespace_single_indent both set,
\* the open brace of a namespace directly inside the braces of another
\* namespace leaves brace_level as it is, and the open brace of any other
\* namespace increments it; with either option unset the open brace of
\* every namespace increments brace_level
C22_NestedNamespaceSingleIndent ==
    \A k \in 1..Len(reached) :
        NamespaceOpen(k) =>
            FrameAfter(k).brace_level =
                IF SingleIndent /\ NestedDirectly(k)
                THEN reached[k].frm.brace_level
                ELSE SizeInc(reached[k].frm.brace_level)

\* C22: both options are set and the sweep has passed the open braces of
\* "namespace a { namespace b {": brace_level is 1 after each of them
C22_Witness ==
    /\ SingleIndent
    /\ \E j, k \in 1..Len(reached) :
           /\ j < k
           /\ NamespaceOpen(j) /\ ~NestedDirectly(j)
           /\ NamespaceOpen(k) /\ NestedDirectly(k)
           /\ top(reached[k].frm).pc = reached[j].id
           /\ FrameAfter(j).brace_level = 1
           /\ FrameAfter(k).brace_level = 1

\* C22: an option is unset and the sweep has passed the open brace of a
\* namespace directly inside another
C22_WitnessUnset ==
    /\ ~SingleIndent
    /\ \E k \in 1..Len(reached) :
           /\ NamespaceOpen(k) /\ NestedDirectly(k)
           /\ FrameAfter(k).brace_level = 2

----------------------------------------------------------------------------
(* else if: what follows "if ( ) ; else", "if ( ) { } else", the second     *)
(* else of "if ( ) ; else if ( ) ; else" and an else without an if, with    *)
(* indent_else_if off and on                                                *)

ElseOpts == {[DefaultOpts EXCEPT !.indent_else_if = a] : a \in BOOLEAN}

ElseAlphabet ==
    {"IF", "NEWLINE", "COMMENT", "PAREN_OPEN", "PAREN_CLOSE", "SEMICOLON"}

ElsePrefixes ==
    {<<"IF", "PAREN_OPEN", "PAREN_CLOSE", "SEMICOLON", "ELSE">>,
     <<"IF", "PAREN_OPEN", "PAREN_CLOSE", "BRACE_OPEN", "BRACE_CLOSE", "ELSE">>,
     <<"IF", "PAREN_OPEN", "PAREN_CLOSE", "SEMICOLON", "ELSE",
       "IF", "PAREN_OPEN", "PAREN_CLOSE", "SEMICOLON", "ELSE">>,
     <<"ELSE">>}

InitElse == InitWith(InputsOf(ElsePrefixes, ElseAlphabet), ElseOpts)

SpecElse == InitElse /\ [][Next]_vars

\* the k-th iteration gave parse_cleanup() an IF with an entry in stage
\* ELSEIF on top of the stack
IfAfterElse(k) ==
    /\ reached[k].parsed
    /\ reached[k].type = "IF"
    /\ top(reached[k].frm).stage = "ELSEIF"

\* pc->GetPrevNc()->IsNewline() for the input token i
NewlineBefore(i) ==
    LET S == {j \in 1..(i - 1) : input[j] # "COMMENT"}
    IN  S # {} /\ input[SetMax(S)] = "NEWLINE"

Fuses(k) == ~opts.indent_else_if \/ ~NewlineBefore(reached[k].id)

\* a stack with the entry on top changed to type ELSEIF, stage PAREN1
Fused(f) == SetTop(SetTop(f, "type", "ELSEIF"), "stage", "PAREN1")

\* the iteration that pushed the entry on top of the stack at iteration k
PushedAt(k) ==
    {j \in 1..(k - 1) : reached[j].id = top(reached[k].frm).pc}

\* the IF becomes an ELSEIF in the entry of the ELSE, and the stack is as
\* deep as after the first keyword of the chain
ElseIfFused(k) ==
    /\ At(chunks, reached[k].id).type = "ELSEIF"
    /\ FrameAfter(k).pse = Fused(reached[k].frm).pse
    /\ \A j \in PushedAt(k) :
           Len(FrameAfter(k).pse) = Len(FrameAfter(j).pse)

\* the IF stays an IF with an entry of its own, above a VBRACE_OPEN that
\* lies before it in the list, above the entry of the ELSE in stage BRACE2
ElseIfApart(k) ==
    LET f == FrameAfter(k)
        n == Len(reached[k].frm.pse)
    IN  /\ At(chunks, reached[k].id).type = "IF"
        /\ Len(f.pse) = n + 2
        /\ SubSeq(f.pse, 1, n) = SetTop(reached[k].frm, "stage", "BRACE2").pse
        /\ f.pse[n + 1].type = "VBRACE_OPEN"
        /\ f.pse[n + 1].pc \in reached[k].ahead
        /\ f.pse[n + 2].type = "IF"
        /\ f.pse[n + 2].stage = "PAREN1"
        /\ f.pse[n + 2].pc = reached[k].id

C23_WitnessApart ==
    \E k \in 1..Len(reached) :
        IfAfterElse(k) /\ ~Fuses(k) /\ ElseIfApart(k)

----------------------------------------------------------------------------
(* D: a closing brace ends the statements without braces before it; what   *)
(* follows "{ if ( ) x", "{ if ( ) if ( ) x" and "{ if ( ) x ; else do x"   *)

DOpts == [DefaultOpts EXCEPT !.lang = "D"]

DAlphabet ==
    {"BRACE_CLOSE", "SEMICOLON", "WORD", "ELSE", "IF", "PAREN_OPEN",
     "PAREN_CLOSE"}

DPrefixes ==
    {<<"BRACE_OPEN", "IF", "PAREN_OPEN", "PAREN_CLOSE", "WORD">>,
     <<"BRACE_OPEN", "IF", "PAREN_OPEN", "PAREN_CLOSE",
       "IF", "PAREN_OPEN", "PAREN_CLOSE", "WORD">>,
     <<"BRACE_OPEN", "IF", "PAREN_OPEN", "PAREN_CLOSE", "WORD", "SEMICOLON",
       "ELSE", "DO", "WORD">>}

InitD == InitWith(InputsOf(DPrefixes, DAlphabet), {DOpts})

SpecD == InitD /\ [][Next]_vars

\* the calls of close_statement() and handle_complex_close() of the last
\* iteration; the call that made the i-th of them, 0 if parse_cleanup() or
\* check_complex_statements() made it
Calls == last.calls

CallerOf(i) ==
    LET S == {j \in 1..(i - 1) : Calls[j].nest = Calls[i].nest - 1}
    IN  IF Calls[i].nest = 0 \/ S = {} THEN 0 ELSE SetMax(S)

\* the calls a call is nested in, itself included
RECURSIVE CallChain(_)
CallChain(i) == IF i = 0 THEN {} ELSE {i} \cup CallChain(CallerOf(i))

\* C24: close_statement() and handle_complex_close() return for every frame
\* the sweep gets to; every call of close_statement() made by one of the two
\* finds the stack at least one entry shorter than its caller did, and the
\* sentinel is still on it
C24_RecursionDescends ==
    /\ Len(frm.pse) >= 1
    /\ frm.pse[1] = Sentinel
    /\ \A i \in 1..Len(Calls) :
           /\ Calls[i].depth >= 1
           /\ (Calls[i].fn = "close_statement" /\ Calls[i].nest > 0)
                  => /\ CallerOf(i) # 0
                     /\ Calls[i].depth <= Calls[CallerOf(i)].depth - 1
           /\ (Calls[i].fn = "handle_complex_close" /\ Calls[i].nest > 0)
                  => /\ CallerOf(i) # 0
                     /\ Calls[CallerOf(i)].fn = "close_statement"
                     /\ Calls[i].depth <= Calls[CallerOf(i)].depth

\* C24: one call of close_statement() went six calls deep, through
\* close_statement() itself and through handle_complex_close(), and three
\* entries down the stack
C24_Witness ==
    \E i \in 1..Len(Calls) :
        /\ Calls[i].fn = "close_statement"
        /\ Calls[i].nest >= 6
        /\ \E j, k \in CallChain(i) :
               /\ Calls[j].fn = "close_statement"
               /\ CallerOf(j) # 0
               /\ Calls[CallerOf(j)].fn = "close_statement"
               /\ Calls[k].fn = "close_statement"
               /\ CallerOf(k) # 0
               /\ Calls[CallerOf(k)].fn = "handle_complex_close"
        /\ \E j \in CallChain(i) : Calls[j].depth >= Calls[i].depth + 3

----------------------------------------------------------------------------
(* Long namespaces: what follows "namespace a {" and "namespace a", with    *)
(* indent_namespace_limit 0, 1 and 2                                        *)

MaxLimit == 2

LongOpts ==
    {[DefaultOpts EXCEPT !.indent_namespace_limit = n] : n \in 0..MaxLimit}

LongAlphabet == {"NEWLINE", "WORD", "BRACE_OPEN", "BRACE_CLOSE"}

LongPrefixes ==
    {<<"NAMESPACE", "WORD", "BRACE_OPEN">>,
     <<"NAMESPACE", "WORD">>,
     <<"NAMESPACE", "WORD", "BRACE_OPEN", "NEWLINE", "NEWLINE">>}

InitLong == InitWith(InputsOf(LongPrefixes, LongAlphabet), LongOpts)

SpecLong == InitLong /\ [][Next]_vars

\* the open brace of the namespace whose keyword is the chunk id: the first
\* brace after it, unless a semicolon comes first; 0 if there is none
NamespaceBrace(id) ==
    LET S == {j \in After(chunks, id) :
                 chunks[j].type \in {"BRACE_OPEN", "SEMICOLON"}}
    IN  IF S = {} \/ chunks[SetMin(S)].type # "BRACE_OPEN" THEN 0
        ELSE chunks[SetMin(S)].id

\* the namespace blocks the sweep has been at: open and closing brace
NamespaceBlocks ==
    {<<NamespaceBrace(reached[k].id),
       GetClosingParen(chunks, NamespaceBrace(reached[k].id))>> :
        k \in {j \in 1..Len(reached) : /\ reached[j].type = "NAMESPACE"
                                        /\ NamespaceBrace(reached[j].id) # 0}}

\* closing-brace line - opening-brace line - 1, as a number
LineCount(blk) == At(chunks, blk[2]).line - At(chunks, blk[1]).line - 1

LongBlock(id) == "LONG_BLOCK" \in At(chunks, id).flags

\* C25: with indent_namespace_limit > 0 the two braces of a namespace block
\* carry LONG_BLOCK if and only if the line of the closing brace minus the
\* line of the open brace minus 1 is greater than indent_namespace_limit;
\* the braces of a namespace that opens and closes on one line do not
C25_LongBlockIffOverLimit ==
    opts.indent_namespace_limit > 0 =>
        \A blk \in NamespaceBlocks :
            blk[2] # 0 =>
                /\ LongBlock(blk[1]) <=> LineCount(blk) > opts.indent_namespace_limit
                /\ LongBlock(blk[2]) <=> LineCount(blk) > opts.indent_namespace_limit

\* the same for the blocks whose braces are on different lines, where the
\* subtraction of line 1266 does not wrap
LongBlockIffOverLimitAcrossLines ==
    opts.indent_namespace_limit > 0 =>
        \A blk \in NamespaceBlocks :
            (blk[2] # 0 /\ LineCount(blk) >= 0) =>
                /\ LongBlock(blk[1]) <=> LineCount(blk) > opts.indent_namespace_limit
                /\ LongBlock(blk[2]) <=> LineCount(blk) > opts.indent_namespace_limit

----------------------------------------------------------------------------
(* The sentinel *)

\* the frames of a state: the current one and those of the frame list
AllFrames == {frm} \cup {frames[i] : i \in 1..Len(frames)}

\* the k-th iteration gave parse_cleanup() a closing bracket while the
\* stack held the sentinel alone
CloserAtSentinel(k) ==
    /\ reached[k].parsed
    /\ reached[k].type \in CloserTypes
    /\ Len(reached[k].frm.pse) = 1

\* C26: in every reachable state the stack of every frame, the current one
\* (initial, fresh for a #define, or restored from the frame list) and
\* those kept in the frame list, has the EOF sentinel as its first entry,
\* and no pop has ever removed a sentinel: top() is always valid
C26_SentinelStays ==
    /\ \A f \in AllFrames : Len(f.pse) >= 1 /\ f.pse[1] = Sentinel
    /\ \A k \in 1..Len(popLog) : popLog[k].type # "EOF"
    /\ \A k \in 1..Len(reached) :
           /\ Len(reached[k].frm.pse) >= 1
           /\ reached[k].frm.pse[1] = Sentinel

\* C26: the sweep left the body of a #define, the frame of before the
\* #define was restored with the sentinel alone on its stack, a closing
\* bracket came, and the pass went on; another closing bracket came inside
\* the #define, with only the dummy entry above the sentinel
C26_Witness ==
    /\ status = "done"
    /\ \E j, k \in 1..Len(reached) :
           /\ CloserAtSentinel(k)
           /\ \E i \in 1..k : reached[i].depth0 > reached[i].depth
           /\ reached[j].parsed
           /\ reached[j].type \in CloserTypes
           /\ Len(reached[j].frm.pse) = 2
           /\ top(reached[j].frm).type = "PP_DEFINE"

----------------------------------------------------------------------------
(* The chunk after the parenthesis of a while-of-do *)

\* C27: when parse_cleanup() gets a chunk that is not a semicolon while the
\* top entry is in stage WOD_SEMI, the pass goes on (it does not exit) and
\* the entry of the WHILE_OF_DO is popped
C27_WodSemiClosedAnyway ==
    (/\ last.parsed
     /\ LastTop.stage = "WOD_SEMI"
     /\ last.type \notin {"SEMICOLON", "VSEMICOLON"})
    => /\ status # "abort"
       /\ \E k \in (last.nlog + 1)..Len(popLog) :
              /\ popLog[k].stage = "WOD_SEMI"
              /\ popLog[k].opener = LastTop.pc

----------------------------------------------------------------------------
(* A "while" after preprocessor lines: what follows "do { }" in the branch  *)
(* of an #if that was left, "do { }" before a #define, and "do { }" in the  *)
(* body of a #define                                                        *)

WodAlphabet ==
    {"WHILE", "NEWLINE", "PAREN_OPEN", "PAREN_CLOSE", "SEMICOLON", "#endif"}

WodPrefixes ==
    {<<"#if", "NEWLINE", "DO", "BRACE_OPEN", "BRACE_CLOSE", "NEWLINE",
       "#else", "NEWLINE", "#endif", "NEWLINE">>,
     <<"DO", "BRACE_OPEN", "NEWLINE", "#if", "NEWLINE", "BRACE_CLOSE",
       "NEWLINE", "#else", "NEWLINE">>,
     <<"DO", "BRACE_OPEN", "BRACE_CLOSE", "NEWLINE", "#define", "NEWLINE">>,
     <<"#define", "DO", "BRACE_OPEN", "BRACE_CLOSE", "NEWLINE">>}

InitWod == InitWith(DirectiveInputs(WodPrefixes, WodAlphabet), {DefaultOpts})

SpecWod == InitWod /\ [][Next]_vars

\* the chunk before the preprocessor lines that end before the chunk id:
\* the last chunk before it that is no comment, no newline and not
\* IN_PREPROC
BeforePreproc(id) ==
    At(chunks, LastIn(chunks, {j \in Before(chunks, id) :
                                  /\ ~IsCommentOrNewline(chunks[j])
                                  /\ "IN_PREPROC" \notin chunks[j].flags}))

ClosesDo(c) == c.type \in {"VBRACE_CLOSE", "BRACE_CLOSE"} /\ c.parent = "DO"

\* the k-th iteration pushed an entry for a WHILE whose previous chunk,
\* comments and newlines apart, is IN_PREPROC
WhileAfterPreproc(k) ==
    /\ reached[k].parsed
    /\ reached[k].type = "WHILE"
    /\ "IN_PREPROC" \in At(chunks, GetPrevNcNnl(chunks, reached[k].id)).flags
    /\ Len(FrameAfter(k).pse) = Len(reached[k].frm.pse) + 1
    /\ top(FrameAfter(k)).pc = reached[k].id

\* C28: a WHILE that comes after preprocessor chunks is retyped to
\* WHILE_OF_DO and pushed in stage WOD_PAREN if and only if the chunk before
\* those preprocessor chunks is a closing brace, real or virtual, with the
\* parent type DO; otherwise it stays a WHILE and is pushed in stage PAREN1
C28_WhileOfDoAcrossPreproc ==
    \A k \in 1..Len(reached) :
        WhileAfterPreproc(k) =>
            IF ClosesDo(BeforePreproc(reached[k].id))
            THEN /\ top(FrameAfter(k)).stage = "WOD_PAREN"
                 /\ top(FrameAfter(k)).type = "WHILE_OF_DO"
                 /\ At(chunks, reached[k].id).type = "WHILE_OF_DO"
            ELSE /\ top(FrameAfter(k)).stage = "PAREN1"
                 /\ top(FrameAfter(k)).type = "WHILE"
                 /\ At(chunks, reached[k].id).type = "WHILE"

\* what the code does: the test is made on the last chunk of the
\* preprocessor lines itself
WhileOfDoByLastPreprocChunk ==
    \A k \in 1..Len(reached) :
        WhileAfterPreproc(k) =>
            IF ClosesDo(At(chunks, GetPrevNcNnl(chunks, reached[k].id)))
            THEN /\ top(FrameAfter(k)).stage = "WOD_PAREN"
                 /\ At(chunks, reached[k].id).type = "WHILE_OF_DO"
            ELSE /\ top(FrameAfter(k)).stage = "PAREN1"
                 /\ At(chunks, reached[k].id).type = "WHILE"

----------------------------------------------------------------------------
(* Which if an else belongs to: what follows "if ( ) if ( ) ;",              *)
(* "if ( ) { if ( ) { }", "if ( ) ; else if ( ) ;" and the if of a #define  *)

BindAlphabet ==
    {"ELSE", "SEMICOLON", "BRACE_CLOSE", "WORD", "NEWLINE", "IF"}

BindPrefixes ==
    {<<"IF", "PAREN_OPEN", "PAREN_CLOSE", "IF", "PAREN_OPEN", "PAREN_CLOSE",
       "SEMICOLON">>,
     <<"IF", "PAREN_OPEN", "PAREN_CLOSE", "BRACE_OPEN",
       "IF", "PAREN_OPEN", "PAREN_CLOSE", "BRACE_OPEN", "BRACE_CLOSE">>,
     <<"IF", "PAREN_OPEN", "PAREN_CLOSE", "SEMICOLON", "ELSE",
       "IF", "PAREN_OPEN", "PAREN_CLOSE", "SEMICOLON">>,
     <<"#define", "IF", "PAREN_OPEN", "PAREN_CLOSE", "BRACE_OPEN",
       "BRACE_CLOSE", "NEWLINE">>}

InitBind == InitWith(InputsOf(BindPrefixes, BindAlphabet), {DefaultOpts})

SpecBind == InitBind /\ [][Next]_vars

\* the iteration that was at the chunk id, 0 if the sweep has not been there
StepOf(id) ==
    LET S == {k \in 1..Len(reached) : reached[k].id = id}
    IN  IF S = {} THEN 0 ELSE SetMin(S)

\* the k-th iteration closed the body of an if or an else-if: it was at the
\* closing brace, real or virtual, of the brace entry on top of the stack,
\* and the entry below that one is an IF or an ELSEIF waiting for its body
IfBodyClosed(k) ==
    LET f == reached[k].frm
        n == Len(f.pse)
    IN  /\ k # 0
        /\ reached[k].parsed
        /\ n >= 3
        /\ f.pse[n].type \in {"BRACE_OPEN", "VBRACE_OPEN"}
        /\ reached[k].type = TokenPlusOne(f.pse[n].type)
        /\ f.pse[n - 1].type \in {"IF", "ELSEIF"}
        /\ f.pse[n - 1].stage = "BRACE2"
        /\ status = "abort" => k < Len(reached)

\* the stack that was under the body closed by the k-th iteration, with the
\* entry of its if rewritten for the else
BoundTo(k) ==
    LET f == reached[k].frm
        n == Len(f.pse)
    IN  SubSeq(f.pse, 1, n - 2)
            \o <<[f.pse[n - 1] EXCEPT !.type = "ELSE", !.stage = "ELSEIF"]>>

\* the chunk before the ELSE of the k-th iteration, comments and newlines
\* apart, closed the body of an if
ElseAfterIfBody(k) ==
    /\ reached[k].parsed
    /\ reached[k].type = "ELSE"
    /\ IfBodyClosed(StepOf(GetPrevNcNnl(chunks, reached[k].id)))

\* the same, and the entry of that if is on top of the stack, in stage ELSE
ElseAtIfEntry(k) ==
    /\ ElseAfterIfBody(k)
    /\ top(reached[k].frm).stage = "ELSE"

\* an if whose body is closed and that is not followed by an ELSE has no
\* entry any more when the iteration that closed the body is over
IfWithoutElsePopped ==
    \A k \in 1..Len(reached) :
        (/\ IfBodyClosed(k)
         /\ At(chunks, GetNextNcNnl(chunks, reached[k].id)).type # "ELSE")
        => Len(FrameAfter(k).pse) <= Len(reached[k].frm.pse) - 2

\* C29 (as stated): an ELSE that comes right after the close of the body of
\* an if or an else-if takes the entry pushed for that if, rewritten to type
\* ELSE and stage ELSEIF; no entry is pushed for the ELSE and the entries
\* below stay as they were; an if whose body is closed and that is not
\* followed by an ELSE is popped before the next chunk is processed
C29_ElseBindsInnermostIf ==
    /\ IfWithoutElsePopped
    /\ \A k \in 1..Len(reached) :
           ElseAfterIfBody(k) =>
               FrameAfter(k).pse = BoundTo(StepOf(GetPrevNcNnl(chunks, reached[k].id)))

\* C29 (amended): the same for an ELSE that finds the entry of the if on top
\* of the stack, in stage ELSE; an ELSE that follows the if of a #define
\* body from outside the #define is in another frame and gets an entry of
\* its own
C29_ElseBindsInnermostIfInFrame ==
    /\ IfWithoutElsePopped
    /\ \A k \in 1..Len(reached) :
           /\ ElseAtIfEntry(k) =>
                  FrameAfter(k).pse = BoundTo(StepOf(GetPrevNcNnl(chunks, reached[k].id)))
           /\ (ElseAfterIfBody(k) /\ ~ElseAtIfEntry(k)) =>
                  /\ reached[StepOf(GetPrevNcNnl(chunks, reached[k].id))].depth0
                         > reached[k].depth
                  /\ Len(FrameAfter(k).pse) = Len(reached[k].frm.pse) + 1
                  /\ top(FrameAfter(k)).pc = reached[k].id

\* C29: the else of "if ( ) if ( ) ; else" took the entry of the inner if,
\* above the entry of the outer if and its virtual brace
C29_Witness ==
    \E k \in 1..Len(reached) :
        /\ ElseAtIfEntry(k)
        /\ FrameAfter(k).pse = BoundTo(StepOf(GetPrevNcNnl(chunks, reached[k].id)))
        /\ \E i \in 1..(Len(FrameAfter(k).pse) - 1) :
               FrameAfter(k).pse[i].type = "IF"
        /\ \E j \in 1..Len(reached) :
               /\ IfBodyClosed(j)
               /\ Len(FrameAfter(j).pse) <= Len(reached[j].frm.pse) - 2

----------------------------------------------------------------------------
(* The statement in a virtual brace: what follows "if ( )", "if ( ) x" and  *)
(* "if ( ) x ="                                                             *)

BodyAlphabet ==
    {"BRACE_OPEN", "BRACE_CLOSE", "SEMICOLON", "WORD", "PAREN_OPEN",
     "PAREN_CLOSE"}

BodyPrefixes ==
    {<<"IF", "PAREN_OPEN", "PAREN_CLOSE">>,
     <<"IF", "PAREN_OPEN", "PAREN_CLOSE", "WORD">>,
     <<"IF", "PAREN_OPEN", "PAREN_CLOSE", "WORD", "ASSIGN">>}

InitBody == InitWith(InputsOf(BodyPrefixes, BodyAlphabet), {DefaultOpts})

SpecBody == InitBody /\ [][Next]_vars

RealOpeners == BracketOpeners \ {"VBRACE_OPEN"}
RealClosers == CloserTypes \ {"VBRACE_CLOSE"}

\* the real brackets of the positions a..b are balanced
BalancedIn(a, b) ==
    Cardinality({i \in a..b : chunks[i].type \in RealOpeners})
        = Cardinality({i \in a..b : chunks[i].type \in RealClosers})

\* the position of the semicolon that ends the statement starting after the
\* position i: the first semicolon outside the brackets of the statement;
\* 0 if there is none
TerminatorAfter(i) ==
    LET S == {j \in (i + 1)..Len(chunks) :
                 /\ chunks[j].type = "SEMICOLON"
                 /\ BalancedIn(i + 1, j)}
    IN  IF S = {} THEN 0 ELSE SetMin(S)

\* the virtual brace pairs: the pops of a VBRACE_OPEN by its VBRACE_CLOSE
VbracePairs ==
    {k \in 1..Len(popLog) : /\ popLog[k].type = "VBRACE_OPEN"
                             /\ popLog[k].opener # 0
                             /\ popLog[k].ctype = "VBRACE_CLOSE"}

\* the body in the virtual brace v is one statement ended by a semicolon: it
\* does not start with a statement keyword, and it has a terminator
SingleStatement(v) ==
    /\ Pos(chunks, v) < Len(chunks)
    /\ get_token_pattern_class(chunks[Pos(chunks, v) + 1].type) = "NONE"
    /\ TerminatorAfter(Pos(chunks, v)) # 0

HasBlock(v) ==
    \E j \in (Pos(chunks, v) + 1)..TerminatorAfter(Pos(chunks, v)) :
        chunks[j].type = "BRACE_OPEN"

\* C30: when the body of a statement without braces is one statement ended
\* by a semicolon, the VBRACE_CLOSE of the inserted pair stands directly
\* after that semicolon, also when the statement has a { } block in it
C30_VbraceClosesAfterSemicolon ==
    status = "done" =>
        \A k \in VbracePairs :
            SingleStatement(popLog[k].opener) =>
                Pos(chunks, popLog[k].closer)
                    = TerminatorAfter(Pos(chunks, popLog[k].opener)) + 1

\* the same for the statements without a { } block
VbraceClosesAfterSemicolonNoBlock ==
    status = "done" =>
        \A k \in VbracePairs :
            (SingleStatement(popLog[k].opener) /\ ~HasBlock(popLog[k].opener)) =>
                Pos(chunks, popLog[k].closer)
                    = TerminatorAfter(Pos(chunks, popLog[k].opener)) + 1

\* what the code does for a statement with a block: the virtual brace is
\* closed directly after the first closing brace whose entry lay on the
\* VBRACE_OPEN
VbraceClosesAfterBlock ==
    status = "done" =>
        \A k \in VbracePairs :
            (SingleStatement(popLog[k].opener) /\ HasBlock(popLog[k].opener)) =>
                /\ At(chunks, GetPrev(chunks, popLog[k].closer)).type = "BRACE_CLOSE"
                /\ Pos(chunks, popLog[k].closer)
                       < TerminatorAfter(Pos(chunks, popLog[k].opener))

----------------------------------------------------------------------------
(* The chunks the sweep does not hand to parse_cleanup()                    *)

SkipAlphabet ==
    {"NEWLINE", "COMMENT", "ATTRIBUTE", "IGNORED", "BRACE_OPEN", "NAMESPACE"}

SkipPrefixes ==
    {<<>>,
     <<"BRACE_OPEN", "NEWLINE", "#if">>,
     <<"#define", "BRACE_OPEN">>,
     <<"BRACE_OPEN", "NEWLINE", "#endif">>,
     <<"IF", "PAREN_OPEN", "NEWLINE", "#if", "NEWLINE", "PAREN_CLOSE",
       "NEWLINE", "#else">>}

InitSkip == InitWith(InputsOf(SkipPrefixes, SkipAlphabet), {DefaultOpts})

SpecSkip == InitSkip /\ [][Next]_vars

\* the iteration is at a chunk the sweep skips: a comment, a newline, an
\* attribute, an ignored token, or a chunk of a directive other than #define
SkippedChunk ==
    /\ status = "run"
    /\ pc # 0
    /\ \/ IsCommentOrNewline(At(chunks, pc))
       \/ At(chunks, pc).type \in {"ATTRIBUTE", "IGNORED"}
       \/ in_preproc' \notin {"NONE", "PP_DEFINE"}

WithoutLevels(c) ==
    [c EXCEPT !.level = 0, !.brace_level = 0, !.pp_level = 0]

\* the iteration changes nothing of the list but the three levels of its chunk
OnlyLevelsReceived ==
    /\ Len(chunks') = Len(chunks)
    /\ \A i \in 1..Len(chunks) :
           IF chunks[i].id = pc
           THEN WithoutLevels(chunks'[i]) = WithoutLevels(chunks[i])
           ELSE chunks'[i] = chunks[i]

\* no entry pushed or popped, no stage changed, the counters of the frame kept
FrameKept ==
    /\ frm'.pse = frm.pse
    /\ frm'.level = frm.level
    /\ frm'.brace_level = frm.brace_level
    /\ frm'.sparen_count = frm.sparen_count
    /\ frm'.stmt_count = frm.stmt_count
    /\ frm'.expr_count = frm.expr_count

\* lines 195-212: the chunk is the first one after the body of a #define
LeavesDefine ==
    /\ in_preproc = "PP_DEFINE"
    /\ "IN_PREPROC" \notin At(chunks, pc).flags

\* C31: a chunk the sweep skips only receives its three levels, and the
\* frame is as it was, but for what the PREPROC chunk of a directive does
C31_SkippedOnlyLevels ==
    [][SkippedChunk =>
          /\ OnlyLevelsReceived
          /\ At(chunks, pc).type # "PREPROC" => FrameKept]_vars

\* C31 as the code has it: the namespace keyword of a skipped chunk is still
\* marked (lines 239-243), and the first chunk after the body of a #define
\* gets the frame back that the #define saved
C31_SkippedOnlyLevelsOrRestore ==
    [][SkippedChunk =>
          /\ At(chunks, pc).type # "NAMESPACE" => OnlyLevelsReceived
          /\ (At(chunks, pc).type # "PREPROC" /\ ~LeavesDefine) => FrameKept]_vars

\* a brace of an #if directive was skipped while the stack held an entry
C31_Witness ==
    /\ last.id # 0
    /\ ~last.parsed
    /\ last.type = "BRACE_OPEN"
    /\ in_preproc = "PP_IF"
    /\ Len(frm.pse) > 1
    /\ At(chunks, last.id).level = frm.level
    /\ At(chunks, last.id).level > 0

----------------------------------------------------------------------------
(* The index of the entry a case, a default, a break and the brace of a     *)
(* switch are linked to                                                     *)

\* the chunk of the last iteration is one that lines 734-789 link
Linked(c) ==
    \/ c.type \in {"CASE", "BREAK"}
    \/ c.type = "DEFAULT" /\ At(chunks, GetPrevNcNnl(chunks, c.id)).type # "ASSIGN"
    \/ c.type = "BRACE_OPEN" /\ c.parent = "SWITCH"

\* C32: the index size - 2 that links a case, a default, a break or the
\* brace of a switch to its parent is an index of the stack, also when the
\* stack holds the sentinel only
C32_LinkIndexValid ==
    (last.id # 0 /\ last.parsed /\ Linked(At(chunks, last.id)))
        => status # "crash"

\* what the code does: the index is valid exactly when an entry lies on the
\* sentinel at the time of the link
LinkIndexValidAboveSentinel ==
    (last.id # 0 /\ last.parsed /\ Linked(At(chunks, last.id)))
        => (status = "crash" <=> Len(frm.pse) < 2)

----------------------------------------------------------------------------
(* Statement starts: the chunks that never start a statement                *)

\* a semicolon, a closing brace, a virtual closing brace, a ")" or a "]"
NeverStarts(c) ==
    \/ IsSemicolon(c)
    \/ c.type \in {"BRACE_CLOSE", "VBRACE_CLOSE"}
    \/ c.str \in {")", "]"}

Starts(c) == c.flags \cap {"STMT_START", "EXPR_START"} # {}

\* C33: no semicolon, closing brace, virtual closing brace, ")" or "]" has
\* STMT_START or EXPR_START, on every path of the pass
C33_ClosersNeverStart ==
    \A i \in 1..Len(chunks) : NeverStarts(chunks[i]) => ~Starts(chunks[i])

\* what the code does: such a chunk has the flags only as the first chunk in
\* a virtual brace, comments and newlines apart (line 1086), never from
\* lines 368-377
ClosersStartOnlyInVbrace ==
    \A i \in 1..Len(chunks) :
        (NeverStarts(chunks[i]) /\ Starts(chunks[i])) =>
            /\ At(chunks, GetPrevNcNnl(chunks, chunks[i].id)).type = "VBRACE_OPEN"
            /\ {"STMT_START", "EXPR_START"} \subseteq chunks[i].flags

----------------------------------------------------------------------------
(* Termination: the sweep under the scheduling of the loop of line 190      *)

\* lines 190-265: the loop takes an iteration while there is a chunk, and
\* brace_cleanup() returns when there is none; the steps of Next are the
\* steps of LoopAdvances that the code defines
LoopAdvances ==
    /\ status = "run"
    /\ IF pc # 0
       THEN visited' = Append(visited, pc) /\ status' \in {"run", "abort", "crash"}
       ELSE visited' = visited /\ status' = "done"

\* nothing suspends the loop: it is scheduled until it has returned or exited
SpecBindLive == InitBind /\ [][Next]_vars /\ WF_<<visited, status>>(LoopAdvances)

\* the chunks one iteration put into the list
InsertedBy(k) == reached[k].after \cup reached[k].ahead

\* one iteration inserts no more chunks than the stack has entries
InsertionsBounded ==
    \A k \in 1..Len(reached) :
        Cardinality(InsertedBy(k)) <= Len(reached[k].frm.pse)

\* the iteration at a VBRACE_CLOSE pops the entry of its VBRACE_OPEN
VisitedVbraceClosePops ==
    \A k \in 1..Len(reached) :
        reached[k].type = "VBRACE_CLOSE" =>
            \E j \in 1..Len(popLog) : /\ popLog[j].closer = reached[k].id
                                      /\ popLog[j].type = "VBRACE_OPEN"

\* C34: brace_cleanup() terminates: an iteration inserts no more virtual
\* chunks than the stack is deep, every VBRACE_CLOSE the sweep comes to
\* pops an entry, and the sweep reaches the end of the list or aborts
C34_Terminates ==
    /\ [](InsertionsBounded /\ VisitedVbraceClosePops)
    /\ <>(status # "run")

\* the sweep came to a VBRACE_CLOSE whose iteration inserted the next one,
\* and reached the end of the list
C34_Witness ==
    /\ status = "done"
    /\ \E k \in 1..Len(reached) :
           /\ reached[k].type = "VBRACE_CLOSE"
           /\ \E v \in reached[k].after : At(chunks, v).type = "VBRACE_CLOSE"
           /\ \E j \in (k + 1)..Len(reached) :
                  /\ reached[j].id \in reached[k].after
                  /\ Len(reached[j].before.pse) > Len(FrameAfter(j).pse)

====
